---- MODULE Spec2Model ----
(***************************************************************************)
(* banana-cli: the CLI orchestration (run), the option validator, the      *)
(* request translator / response interpreter (generateImage), the artifact *)
(* namer (generateOutputFilename) with the MIME tables, and the MCP        *)
(* server's tool call handler, as state machines.                          *)
(*                                                                         *)
(* Representation of JavaScript values:                                    *)
(*   - enumerated / opaque strings are TLA+ strings; Undefined stands for  *)
(*     the value undefined of such a string;                               *)
(*   - strings the code takes apart (prompt, file paths, the count         *)
(*     argument) are sequences of one-character strings; UndefinedS stands *)
(*     for undefined there;                                                *)
(*   - an optional object is a sequence of length 0 (undefined) or 1;      *)
(*   - a JavaScript number that may be NaN or a non-integer is a record    *)
(*     [kind, twice] whose value is twice/2.                               *)
(***************************************************************************)
EXTENDS Integers, Sequences, FiniteSets, TLC

VARIABLES
    mode,          \* which entry point this behaviour exercises
    pc,            \* position inside the entry point
    argv,          \* commander's parsed opts() plus process.env.GEMINI_API_KEY
    options,       \* CLIOptions (parseOptions / direct argument of validateOptions)
    apiKey,        \* run: options.key || process.env.GEMINI_API_KEY
    optionsError,  \* result of validateOptions ("null" is null)
    inputImage,    \* run: the loaded InputImage, <<>> while undefined
    inputFile,     \* run: what the file system held at the input image path
    genOptions,    \* argument of generateImage, <<>> before the call
    requests,      \* every fetch() issued so far: [url, method, headers, body]
    response,      \* the outcome of the awaited fetch, <<>> before it settles
    result,        \* GenerationResult returned by generateImage, <<>> before
    imgIndex,      \* run: loop variable i of the save loop
    savedPaths,    \* run: savedPaths
    files,         \* the file system written so far: path -> bytes
    now,           \* Date.now()
    stderr,        \* console.error lines
    stdout,        \* console.log lines
    exitCode,      \* value returned by run, -1 while running
    replies        \* what an entry point other than run handed back to its caller:
                   \* the return value of a function called directly, the MCP
                   \* server's tool responses

vars == <<mode, pc, argv, options, apiKey, optionsError, inputImage, inputFile,
          genOptions,
          requests, response, result, imgIndex, savedPaths, files, now, stderr,
          stdout, exitCode, replies>>

----------------------------------------------------------------------------
(* Bounds of the model *)

MaxPromptLen == 2      \* prompts are all strings over PromptChars up to this length
MaxCountArg == 5       \* count values range over -1 .. MaxCountArg in steps of 1/2
MaxParts == 2          \* content parts in a vendor response, over all its candidates
MaxCandidates == 2     \* candidates per vendor response
MaxRunImages == 4      \* images in the vendor responses offered to a CLI run or a tool call
MaxClock == 2          \* Date.now() ranges over 0 .. MaxClock

----------------------------------------------------------------------------
(* JavaScript values *)

Undefined == "<undefined>"
UndefinedS == <<"<undefined>">>
Null == "null"

Truthy(s) == s # Undefined /\ s # ""
TruthyS(s) == s # UndefinedS /\ s # <<>>

NumUndefined == [kind |-> "undefined", twice |-> 0]
NaN == [kind |-> "nan", twice |-> 0]
Num(n) == [kind |-> "num", twice |-> 2 * n]
Half(t) == [kind |-> "num", twice |-> t]
isNaN(c) == c.kind = "nan"
IsInteger(c) == c.kind = "num" /\ c.twice % 2 = 0

RECURSIVE Str(_)
Str(s) == IF s = <<>> THEN "" ELSE Head(s) \o Str(Tail(s))

RECURSIVE Join(_, _)
Join(xs, sep) ==
    IF xs = <<>> THEN ""
    ELSE IF Len(xs) = 1 THEN xs[1]
    ELSE xs[1] \o sep \o Join(Tail(xs), sep)

SeqsUpTo(S, n) == UNION {[1..k -> S] : k \in 0..n}

Range(f) == {f[x] : x \in DOMAIN f}

IsWhitespace(c) == c \in {" ", "\t", "\n"}

RECURSIVE trimStart(_)
trimStart(s) ==
    IF s # <<>> /\ IsWhitespace(Head(s)) THEN trimStart(Tail(s)) ELSE s

RECURSIVE trimEnd(_)
trimEnd(s) ==
    IF s # <<>> /\ IsWhitespace(s[Len(s)]) THEN trimEnd(SubSeq(s, 1, Len(s) - 1)) ELSE s

trim(s) == trimEnd(trimStart(s))

----------------------------------------------------------------------------
(* api.ts: the enumerated domains *)

AVAILABLE_MODELS == <<"gemini-2.0-flash-exp", "imagen-3.0-generate-002">>

AVAILABLE_ASPECT_RATIOS ==
    <<"1:1", "2:3", "3:2", "3:4", "4:3", "4:5", "5:4", "9:16", "16:9", "21:9">>

AVAILABLE_IMAGE_SIZES == <<"1K", "2K", "4K">>

includes(xs, x) == \E k \in 1..Len(xs) : xs[k] = x

----------------------------------------------------------------------------
(* cli.ts: validateOptions *)

\* mutant: the size is checked before the aspect ratio
validateOptionsSizeFirst(o) ==
    IF ~ TruthyS(o.prompt) \/ trim(o.prompt) = <<>>
    THEN "Prompt is required. Use -i or --input to specify a prompt."
    ELSE IF Truthy(o.model) /\ ~ includes(AVAILABLE_MODELS, o.model)
    THEN "Invalid model. Available models: " \o Join(AVAILABLE_MODELS, ", ")
    ELSE IF Truthy(o.size) /\ ~ includes(AVAILABLE_IMAGE_SIZES, o.size)
    THEN "Invalid size. Available sizes: " \o Join(AVAILABLE_IMAGE_SIZES, ", ")
    ELSE IF Truthy(o.aspectRatio) /\ ~ includes(AVAILABLE_ASPECT_RATIOS, o.aspectRatio)
    THEN "Invalid aspect ratio. Available ratios: " \o Join(AVAILABLE_ASPECT_RATIOS, ", ")
    ELSE IF o.count.kind # "undefined"
            /\ (isNaN(o.count) \/ o.count.twice < 2 \/ o.count.twice > 8)
    THEN "Count must be a number between 1 and 4."
    ELSE Null

validateOptions(o) ==
    IF ~ TruthyS(o.prompt) \/ trim(o.prompt) = <<>>
    THEN "Prompt is required. Use -i or --input to specify a prompt."
    ELSE IF Truthy(o.model) /\ ~ includes(AVAILABLE_MODELS, o.model)
    THEN "Invalid model. Available models: " \o Join(AVAILABLE_MODELS, ", ")
    ELSE IF Truthy(o.aspectRatio) /\ ~ includes(AVAILABLE_ASPECT_RATIOS, o.aspectRatio)
    THEN "Invalid aspect ratio. Available ratios: " \o Join(AVAILABLE_ASPECT_RATIOS, ", ")
    ELSE IF Truthy(o.size) /\ ~ includes(AVAILABLE_IMAGE_SIZES, o.size)
    THEN "Invalid size. Available sizes: " \o Join(AVAILABLE_IMAGE_SIZES, ", ")
    ELSE IF o.count.kind # "undefined"
            /\ (isNaN(o.count) \/ o.count.twice < 2 \/ o.count.twice > 8)
    THEN "Count must be a number between 1 and 4."
    ELSE Null

----------------------------------------------------------------------------
(* Buffer <-> base64 text (Buffer.from(s, "base64"), buf.toString("base64")).  *)
(* Bytes are numbers 0..255, base64 text is a sequence of characters.          *)

B64Alphabet ==
    <<"A", "B", "C", "D", "E", "F", "G", "H", "I", "J", "K", "L", "M", "N", "O", "P",
      "Q", "R", "S", "T", "U", "V", "W", "X", "Y", "Z", "a", "b", "c", "d", "e", "f",
      "g", "h", "i", "j", "k", "l", "m", "n", "o", "p", "q", "r", "s", "t", "u", "v",
      "w", "x", "y", "z", "0", "1", "2", "3", "4", "5", "6", "7", "8", "9", "+", "/">>

B64Char(n) == B64Alphabet[n + 1]
B64Value(c) == (CHOOSE k \in 1..64 : B64Alphabet[k] = c) - 1
IsB64Char(c) == \E k \in 1..64 : B64Alphabet[k] = c

RECURSIVE toBase64(_)
toBase64(bytes) ==
    IF Len(bytes) = 0 THEN <<>>
    ELSE IF Len(bytes) = 1
    THEN <<B64Char(bytes[1] \div 4), B64Char((bytes[1] % 4) * 16), "=", "=">>
    ELSE IF Len(bytes) = 2
    THEN <<B64Char(bytes[1] \div 4),
           B64Char((bytes[1] % 4) * 16 + bytes[2] \div 16),
           B64Char((bytes[2] % 16) * 4), "=">>
    ELSE <<B64Char(bytes[1] \div 4),
           B64Char((bytes[1] % 4) * 16 + bytes[2] \div 16),
           B64Char((bytes[2] % 16) * 4 + bytes[3] \div 64),
           B64Char(bytes[3] % 64)>> \o toBase64(SubSeq(bytes, 4, Len(bytes)))

\* the decoder stops at the first "=" and skips characters outside the alphabet
RECURSIVE b64Payload(_)
b64Payload(s) ==
    IF s = <<>> \/ Head(s) = "=" THEN <<>>
    ELSE IF IsB64Char(Head(s)) THEN <<B64Value(Head(s))>> \o b64Payload(Tail(s))
    ELSE b64Payload(Tail(s))

RECURSIVE b64Bytes(_)
b64Bytes(v) ==
    IF Len(v) < 2 THEN <<>>
    ELSE IF Len(v) = 2 THEN <<v[1] * 4 + v[2] \div 16>>
    ELSE IF Len(v) = 3
    THEN <<v[1] * 4 + v[2] \div 16, (v[2] % 16) * 16 + v[3] \div 4>>
    ELSE <<v[1] * 4 + v[2] \div 16, (v[2] % 16) * 16 + v[3] \div 4,
           (v[3] % 4) * 64 + v[4]>> \o b64Bytes(SubSeq(v, 5, Len(v)))

fromBase64(s) == b64Bytes(b64Payload(s))

----------------------------------------------------------------------------
(* api.ts: generateImage *)

API_BASE_URL == "https://generativelanguage.googleapis.com/v1beta/models"

EmptyObject == [k \in {} |-> ""]

\* lines 18-28: destructuring defaults and the endpoint
requestModel(o) == IF o.model = Undefined THEN "gemini-2.0-flash-exp" ELSE o.model

\* mutant: the key travels as a query parameter
requestUrlWithKey(o) ==
    API_BASE_URL \o "/" \o requestModel(o) \o ":generateContent?key=" \o o.apiKey

requestUrl(o) == API_BASE_URL \o "/" \o requestModel(o) \o ":generateContent"

\* mutant: the input image is put in front of the prompt
requestPartsImageFirst(o) ==
    (IF o.inputImage # <<>>
     THEN <<[inlineData |-> [mimeType |-> o.inputImage[1].mimeType,
                             data |-> o.inputImage[1].data]]>>
     ELSE <<>>) \o <<[text |-> o.prompt]>>

\* lines 30-40
requestParts(o) ==
    <<[text |-> o.prompt]>> \o
    (IF o.inputImage # <<>>
     THEN <<[inlineData |-> [mimeType |-> o.inputImage[1].mimeType,
                             data |-> o.inputImage[1].data]]>>
     ELSE <<>>)

\* lines 53-62
imageConfig(o) ==
    (IF Truthy(o.aspectRatio) THEN [aspectRatio |-> o.aspectRatio] ELSE EmptyObject)
    @@ (IF Truthy(o.imageSize) THEN [imageSize |-> o.imageSize] ELSE EmptyObject)

\* mutant: the sub-block is added only when both fields are given
generationConfigWhenBoth(o) ==
    IF Truthy(o.aspectRatio) /\ Truthy(o.imageSize)
    THEN [responseModalities |-> <<"TEXT", "IMAGE">>, imageConfig |-> imageConfig(o)]
    ELSE [responseModalities |-> <<"TEXT", "IMAGE">>]

generationConfig(o) ==
    IF Truthy(o.aspectRatio) \/ Truthy(o.imageSize)
    THEN [responseModalities |-> <<"TEXT", "IMAGE">>, imageConfig |-> imageConfig(o)]
    ELSE [responseModalities |-> <<"TEXT", "IMAGE">>]

\* lines 42-62; JSON.stringify keeps exactly the fields that are present
requestBody(o) ==
    [contents |-> <<[parts |-> requestParts(o)]>>,
     generationConfig |-> generationConfig(o)]

\* lines 65-72
fetchRequest(o) ==
    [url |-> requestUrl(o),
     method |-> "POST",
     headers |-> ("Content-Type" :> "application/json") @@ ("x-goog-api-key" :> o.apiKey),
     body |-> requestBody(o)]

Has(obj, field) == field \in DOMAIN obj

Failure(message) == [success |-> FALSE, error |-> message]

\* lines 127-133
requestFailed(message) == Failure("Request failed: " \o message)

\* mutant: the accompanying text is dropped
withoutText(r, text) == r

withText(r, text) == IF text = Undefined THEN r ELSE r @@ [text |-> text]

\* mutant: a collected image is put in front of the list
scanPartPrepends(acc, part) ==
    [acc EXCEPT
        !.images = IF Has(part, "inlineData")
                   THEN <<[data |-> fromBase64(part.inlineData.data),
                           mimeType |-> part.inlineData.mimeType]>> \o @
                   ELSE @,
        !.text = IF Has(part, "text") /\ part.text # "" THEN part.text ELSE @]

\* lines 101-111: one part of one candidate
scanPart(acc, part) ==
    [acc EXCEPT
        !.images = IF Has(part, "inlineData")
                   THEN Append(@, [data |-> fromBase64(part.inlineData.data),
                                   mimeType |-> part.inlineData.mimeType])
                   ELSE @,
        !.text = IF Has(part, "text") /\ part.text # "" THEN part.text ELSE @]

RECURSIVE scanParts(_, _)
scanParts(acc, parts) ==
    IF parts = <<>> THEN acc ELSE scanParts(scanPart(acc, Head(parts)), Tail(parts))

\* lines 100-112: candidate.content.parts throws a TypeError on a candidate
\* without content, and the for-of on a content without parts
RECURSIVE scanCandidates(_, _)
scanCandidates(acc, candidates) ==
    IF candidates = <<>> THEN acc
    ELSE LET c == Head(candidates) IN
         IF ~ Has(c, "content")
         THEN [acc EXCEPT !.threw = "Cannot read properties of undefined (reading 'parts')"]
         ELSE IF ~ Has(c.content, "parts")
         THEN [acc EXCEPT !.threw = "undefined is not iterable"]
         ELSE scanCandidates(scanParts(acc, c.content.parts), Tail(candidates))

ScanStart == [images |-> <<>>, text |-> Undefined, threw |-> Undefined]

\* line 79
httpError(res, data) ==
    IF Has(data, "error") /\ Has(data.error, "message") /\ data.error.message # ""
    THEN data.error.message
    ELSE "HTTP " \o ToString(res.status) \o ": " \o res.statusText

\* mutant: the candidate list is looked at before the block reason
interpretDataCandidatesFirst(res, data) ==
    IF ~ res.ok
    THEN Failure(httpError(res, data))
    ELSE IF Has(data, "candidates") /\ Len(data.candidates) > 0
    THEN LET s == scanCandidates(ScanStart, data.candidates) IN
         IF s.threw # Undefined
         THEN requestFailed(s.threw)
         ELSE IF Len(s.images) = 0
         THEN withText(Failure("No images generated. The API returned only text."), s.text)
         ELSE withText([success |-> TRUE, images |-> s.images], s.text)
    ELSE IF Has(data, "promptFeedback") /\ Has(data.promptFeedback, "blockReason")
            /\ data.promptFeedback.blockReason # ""
    THEN Failure("Content blocked: " \o data.promptFeedback.blockReason)
    ELSE Failure("No candidates returned from API")

\* mutant: a scan that collected no image still reports success
interpretDataNoImageCheck(res, data) ==
    IF ~ res.ok
    THEN Failure(httpError(res, data))
    ELSE IF Has(data, "promptFeedback") /\ Has(data.promptFeedback, "blockReason")
            /\ data.promptFeedback.blockReason # ""
    THEN Failure("Content blocked: " \o data.promptFeedback.blockReason)
    ELSE IF ~ Has(data, "candidates") \/ Len(data.candidates) = 0
    THEN Failure("No candidates returned from API")
    ELSE LET s == scanCandidates(ScanStart, data.candidates) IN
         IF s.threw # Undefined
         THEN requestFailed(s.threw)
         ELSE withText([success |-> TRUE, images |-> s.images], s.text)

\* lines 74-126, data being the parsed body
interpretData(res, data) ==
    IF ~ res.ok
    THEN Failure(httpError(res, data))
    ELSE IF Has(data, "promptFeedback") /\ Has(data.promptFeedback, "blockReason")
            /\ data.promptFeedback.blockReason # ""
    THEN Failure("Content blocked: " \o data.promptFeedback.blockReason)
    ELSE IF ~ Has(data, "candidates") \/ Len(data.candidates) = 0
    THEN Failure("No candidates returned from API")
    ELSE LET s == scanCandidates(ScanStart, data.candidates) IN
         IF s.threw # Undefined
         THEN requestFailed(s.threw)
         ELSE IF Len(s.images) = 0
         THEN withText(Failure("No images generated. The API returned only text."), s.text)
         ELSE withText([success |-> TRUE, images |-> s.images], s.text)

\* an exception that leaves generateImage (no path of the code produces it)
Thrown(message) == [thrown |-> message]

\* mutant: response.json() is awaited outside the try block
generateImageResultJsonOutsideTry(outcome) ==
    IF outcome.kind = "rejected"
    THEN requestFailed(outcome.message)
    ELSE IF outcome.body.kind = "unparseable"
    THEN Thrown(outcome.body.message)
    ELSE IF outcome.body.kind = "null"
    THEN requestFailed("Cannot read properties of null (reading '"
                       \o (IF outcome.ok THEN "promptFeedback" ELSE "error") \o "')")
    ELSE interpretData(outcome, outcome.body.data)

\* lines 64-133: what generateImage returns once the fetch has settled
generateImageResult(outcome) ==
    IF outcome.kind = "rejected"
    THEN requestFailed(outcome.message)
    ELSE IF outcome.body.kind = "unparseable"
    THEN requestFailed(outcome.body.message)
    ELSE IF outcome.body.kind = "null"
    THEN requestFailed("Cannot read properties of null (reading '"
                       \o (IF outcome.ok THEN "promptFeedback" ELSE "error") \o "')")
    ELSE interpretData(outcome, outcome.body.data)

----------------------------------------------------------------------------
(* State shared by the entry points *)

NoFiles == [p \in {} |-> <<>>]

Idle(m, a, o) ==
    /\ mode = m
    /\ argv = a
    /\ options = o
    /\ apiKey = Undefined
    /\ optionsError = Undefined
    /\ inputImage = <<>>
    /\ inputFile = <<>>
    /\ genOptions = <<>>
    /\ requests = <<>>
    /\ response = <<>>
    /\ result = <<>>
    /\ imgIndex = 0
    /\ savedPaths = <<>>
    /\ files = NoFiles
    /\ now = 0
    /\ stderr = <<>>
    /\ stdout = <<>>
    /\ exitCode = -1
    /\ replies = <<>>

NoArgv == <<>>
NoOptions == <<>>

----------------------------------------------------------------------------
(* validateOptions called directly, on every CLIOptions object *)

PromptChars == {" ", "a"}

AnyPrompt == {UndefinedS} \cup SeqsUpTo(PromptChars, MaxPromptLen)
AnyModel == {Undefined, "", "invalid-model"} \cup Range(AVAILABLE_MODELS)
AnyAspectRatio == {Undefined, "", "1:1", "21:9", "16:10"}
AnySize == {Undefined, "", "1K", "4K", "8K"}
AnyCount == {NumUndefined, NaN} \cup {Half(t) : t \in -2 .. 2 * MaxCountArg}

AnyCLIOptions ==
    [prompt : AnyPrompt, key : {Undefined}, output : {UndefinedS}, model : AnyModel,
     aspectRatio : AnyAspectRatio, size : AnySize, count : AnyCount,
     image : {UndefinedS}]

InitValidate ==
    /\ pc = "validate"
    /\ \E o \in AnyCLIOptions : Idle("validate", NoArgv, o)

CallValidateOptions ==
    /\ mode = "validate"
    /\ pc = "validate"
    /\ optionsError' = validateOptions(options)
    /\ pc' = "validated"
    /\ UNCHANGED <<mode, replies, argv, options, apiKey, inputImage, inputFile, genOptions, requests,
                   response, result, imgIndex, savedPaths, files, now, stderr,
                   stdout, exitCode>>

NextValidate == CallValidateOptions

SpecValidate == InitValidate /\ [][NextValidate]_vars

----------------------------------------------------------------------------
(* The vendor's answers: every way the awaited fetch can settle *)

PngBytes == <<137, 80>>
JpegBytes == <<255, 216, 255>>

TextA == [text |-> "A red circle"]
TextB == [text |-> "Second thoughts"]
TextEmpty == [text |-> ""]
ImagePng == [inlineData |-> [mimeType |-> "image/png", data |-> toBase64(PngBytes)]]
ImageJpegWithText ==
    [text |-> "caption",
     inlineData |-> [mimeType |-> "image/jpeg", data |-> toBase64(JpegBytes)]]

PartKinds == {TextA, TextB, TextEmpty, ImagePng, ImageJpegWithText}

\* candidates the declared type excludes but a JSON body can carry
MalformedCandidates == {[finishReason |-> "SAFETY"], [content |-> [role |-> "model"]]}

\* the lists of exactly n candidates that hold at most p parts altogether
RECURSIVE CandidateLists(_, _)
CandidateLists(n, p) ==
    IF n = 0 THEN {<<>>}
    ELSE {<<c>> \o rest : c \in MalformedCandidates, rest \in CandidateLists(n - 1, p)}
         \cup UNION {{<<[content |-> [parts |-> ps]]>> \o rest :
                         ps \in [1..k -> PartKinds], rest \in CandidateLists(n - 1, p - k)} :
                     k \in 0..p}

AnyCandidates == UNION {CandidateLists(n, MaxParts) : n \in 0..MaxCandidates}

AnyError == {EmptyObject, [error |-> [message |-> "Invalid API key"]],
             [error |-> [code |-> 500]]}
AnyPromptFeedback == {EmptyObject, [promptFeedback |-> [blockReason |-> "SAFETY"]],
                      [promptFeedback |-> [safetyRatings |-> <<>>]]}

AnyData ==
    {e @@ f @@ c : e \in AnyError, f \in AnyPromptFeedback,
                   c \in {EmptyObject} \cup {[candidates |-> cs] : cs \in AnyCandidates}}

AnyStatus == {[ok |-> TRUE, status |-> 200, statusText |-> "OK"],
              [ok |-> FALSE, status |-> 401, statusText |-> "Unauthorized"],
              [ok |-> FALSE, status |-> 502, statusText |-> "Bad Gateway"]}

Response(st, body) ==
    [kind |-> "response", ok |-> st.ok, status |-> st.status,
     statusText |-> st.statusText, body |-> body]

Rejected(message) == [kind |-> "rejected", message |-> message]
Json(data) == [kind |-> "json", data |-> data]
Unparseable == [kind |-> "unparseable",
                message |-> "Unexpected token < in JSON at position 0"]
JsonNull == [kind |-> "null"]

AnyOutcome ==
    {Rejected("Network error"), Rejected("fetch failed")}
    \cup {Response(st, b) : st \in AnyStatus, b \in {Unparseable, JsonNull}}
    \cup {Response(st, Json(d)) : st \in AnyStatus, d \in AnyData}

Ok == [ok |-> TRUE, status |-> 200, statusText |-> "OK"]

OneImage == Response(Ok, Json([candidates |-> <<[content |-> [parts |-> <<ImagePng>>]]>>]))

\* the answers offered where the request, not the answer, is under study
FewOutcomes == {Rejected("Network error"), OneImage}

ImageList(k, mixed) ==
    [j \in 1..k |-> IF mixed /\ j % 2 = 0 THEN ImageJpegWithText ELSE ImagePng]

OneCandidate(parts) == Response(Ok, Json([candidates |-> <<[content |-> [parts |-> parts]]>>]))

\* the answers offered to a CLI invocation and to an MCP tool call
RunOutcomes ==
    {Rejected("Network error"),
     Response([ok |-> FALSE, status |-> 401, statusText |-> "Unauthorized"],
              Json([error |-> [message |-> "Invalid API key"]])),
     Response(Ok, Json([promptFeedback |-> [blockReason |-> "SAFETY"]])),
     Response(Ok, Json([candidates |-> <<>>])),
     OneCandidate(<<TextA>>)}
    \cup {OneCandidate(ImageList(k, mixed)) : k \in 1..MaxRunImages, mixed \in BOOLEAN}

Outcomes(m) ==
    IF m = "interpret" THEN AnyOutcome
    ELSE IF m \in {"cli", "mcp"} THEN RunOutcomes
    ELSE FewOutcomes

----------------------------------------------------------------------------
(* generateImage as two steps: up to the awaited fetch, and from its settling *)

GenerateFetch ==
    /\ pc = "generate"
    /\ requests' = Append(requests, fetchRequest(genOptions[1]))
    /\ pc' = "fetching"
    /\ UNCHANGED <<mode, replies, argv, options, apiKey, optionsError, inputImage, inputFile, genOptions,
                   response, result, imgIndex, savedPaths, files, now, stderr,
                   stdout, exitCode>>

GenerateReturn ==
    /\ pc = "fetching"
    /\ \E outcome \in Outcomes(mode) :
          /\ response' = <<outcome>>
          /\ result' = <<generateImageResult(outcome)>>
    /\ pc' = "generated"
    /\ UNCHANGED <<mode, replies, argv, options, apiKey, optionsError, inputImage, inputFile, genOptions,
                   requests, imgIndex, savedPaths, files, now, stderr, stdout,
                   exitCode>>

----------------------------------------------------------------------------
(* generateImage called directly *)

AnyInputImage ==
    {<<>>, <<[data |-> toBase64(PngBytes), mimeType |-> "image/png"]>>,
     <<[data |-> <<>>, mimeType |-> "image/jpeg"]>>}

AnyGenerationOptions ==
    [prompt : SeqsUpTo(PromptChars, MaxPromptLen),
     apiKey : {"valid-api-key-12345", "k"},
     model : AnyModel,
     aspectRatio : AnyAspectRatio,
     imageSize : AnySize,
     numberOfImages : {NumUndefined, Num(4)},
     inputImage : AnyInputImage]

BasicGenerationOptions ==
    [prompt : {<<"a">>},
     apiKey : {"valid-api-key-12345"},
     model : {Undefined},
     aspectRatio : {Undefined, "16:9"},
     imageSize : {Undefined},
     numberOfImages : {NumUndefined},
     inputImage : {<<>>}]

InitGenerate(m, O) ==
    /\ pc = "generate"
    /\ mode = m
    /\ argv = NoArgv
    /\ options = NoOptions
    /\ apiKey = Undefined
    /\ optionsError = Undefined
    /\ inputImage = <<>>
    /\ inputFile = <<>>
    /\ genOptions \in {<<o>> : o \in O}
    /\ requests = <<>>
    /\ response = <<>>
    /\ result = <<>>
    /\ imgIndex = 0
    /\ savedPaths = <<>>
    /\ files = NoFiles
    /\ now = 0
    /\ stderr = <<>>
    /\ stdout = <<>>
    /\ exitCode = -1
    /\ replies = <<>>

NextGenerate == GenerateFetch \/ GenerateReturn

\* every options object, a few answers
SpecRequest == InitGenerate("request", AnyGenerationOptions) /\ [][NextGenerate]_vars

\* a few options objects, every answer
SpecInterpret == InitGenerate("interpret", BasicGenerationOptions) /\ [][NextGenerate]_vars

----------------------------------------------------------------------------
(* Characters, digits and decimal numbers *)

DigitChars == <<"0", "1", "2", "3", "4", "5", "6", "7", "8", "9">>
IsDigit(c) == \E k \in 1..10 : DigitChars[k] = c
DigitValue(c) == (CHOOSE k \in 1..10 : DigitChars[k] = c) - 1

\* `${n}` for a non-negative integer
RECURSIVE Digits(_)
Digits(n) ==
    IF n < 10 THEN <<DigitChars[n + 1]>>
    ELSE Digits(n \div 10) \o <<DigitChars[(n % 10) + 1]>>

RECURSIVE digitPrefix(_)
digitPrefix(s) ==
    IF s # <<>> /\ IsDigit(Head(s)) THEN <<Head(s)>> \o digitPrefix(Tail(s)) ELSE <<>>

RECURSIVE decimalValue(_)
decimalValue(ds) ==
    IF ds = <<>> THEN 0
    ELSE 10 * decimalValue(SubSeq(ds, 1, Len(ds) - 1)) + DigitValue(ds[Len(ds)])

\* parseInt(s, 10): leading whitespace, an optional sign, then the longest
\* run of digits; NaN when there is none
parseInt(s) ==
    LET t == trimStart(s)
        signed == t # <<>> /\ Head(t) \in {"-", "+"}
        ds == digitPrefix(IF signed THEN Tail(t) ELSE t)
    IN IF ds = <<>> THEN NaN
       ELSE IF signed /\ Head(t) = "-" THEN Num(0 - decimalValue(ds))
       ELSE Num(decimalValue(ds))

UpperChars == <<"A", "B", "C", "D", "E", "F", "G", "H", "I", "J", "K", "L", "M", "N", "O", "P", "Q", "R", "S", "T", "U", "V", "W", "X", "Y", "Z">>
LowerChars == <<"a", "b", "c", "d", "e", "f", "g", "h", "i", "j", "k", "l", "m", "n", "o", "p", "q", "r", "s", "t", "u", "v", "w", "x", "y", "z">>

toLowerCaseChar(c) ==
    IF \E k \in 1..26 : UpperChars[k] = c
    THEN LowerChars[CHOOSE k \in 1..26 : UpperChars[k] = c]
    ELSE c

toLowerCase(s) == [k \in 1..Len(s) |-> toLowerCaseChar(s[k])]

----------------------------------------------------------------------------
(* node:path, POSIX flavour, on character sequences *)

Cwd == <<"/", "w">>

RECURSIVE stripTrailingSlashes(_)
stripTrailingSlashes(p) ==
    IF Len(p) > 1 /\ p[Len(p)] = "/" THEN stripTrailingSlashes(SubSeq(p, 1, Len(p) - 1))
    ELSE p

SlashIndices(p) == {k \in 1..Len(p) : p[k] = "/"}
Greatest(S) == CHOOSE k \in S : \A j \in S : j <= k

dirname(path) ==
    LET p == stripTrailingSlashes(path) IN
    IF p = <<>> THEN <<".">>
    ELSE IF SlashIndices(p) = {} THEN <<".">>
    ELSE IF Greatest(SlashIndices(p)) = 1 THEN <<"/">>
    ELSE stripTrailingSlashes(SubSeq(p, 1, Greatest(SlashIndices(p)) - 1))

\* the last segment of the path
lastSegment(path) ==
    LET p == stripTrailingSlashes(path) IN
    IF p = <<"/">> THEN <<>>
    ELSE IF SlashIndices(p) = {} THEN p
    ELSE SubSeq(p, Greatest(SlashIndices(p)) + 1, Len(p))

extname(path) ==
    LET b == lastSegment(path)
        dots == {k \in 1..Len(b) : b[k] = "."}
    IN IF dots = {} \/ Greatest(dots) = 1 \/ b = <<".", ".">> THEN <<>>
       ELSE SubSeq(b, Greatest(dots), Len(b))

endsWith(s, suffix) ==
    Len(suffix) <= Len(s) /\ SubSeq(s, Len(s) - Len(suffix) + 1, Len(s)) = suffix

basename(path, suffix) ==
    LET b == lastSegment(path) IN
    IF suffix # <<>> /\ suffix = b THEN <<>>
    ELSE IF suffix # <<>> /\ endsWith(b, suffix) THEN SubSeq(b, 1, Len(b) - Len(suffix))
    ELSE b

RECURSIVE split(_, _)
split(s, sep) ==
    LET hits == {k \in 1..Len(s) : s[k] = sep} IN
    IF hits = {} THEN <<s>>
    ELSE LET k == CHOOSE h \in hits : \A j \in hits : h <= j
         IN <<SubSeq(s, 1, k - 1)>> \o split(SubSeq(s, k + 1, Len(s)), sep)

RECURSIVE normalizeSegments(_, _)
normalizeSegments(done, todo) ==
    IF todo = <<>> THEN done
    ELSE IF Head(todo) \in {<<>>, <<".">>} THEN normalizeSegments(done, Tail(todo))
    ELSE IF Head(todo) = <<".", ".">>
    THEN normalizeSegments(IF done = <<>> THEN done ELSE SubSeq(done, 1, Len(done) - 1),
                           Tail(todo))
    ELSE normalizeSegments(Append(done, Head(todo)), Tail(todo))

RECURSIVE joinSegments(_)
joinSegments(segs) ==
    IF segs = <<>> THEN <<>> ELSE <<"/">> \o Head(segs) \o joinSegments(Tail(segs))

isAbsolute(p) == p # <<>> /\ Head(p) = "/"

\* resolve(a, b) with process.cwd() = Cwd
resolve(a, b) ==
    LET joined == IF isAbsolute(b) THEN b
                  ELSE IF isAbsolute(a) THEN a \o <<"/">> \o b
                  ELSE Cwd \o <<"/">> \o a \o <<"/">> \o b
        segs == normalizeSegments(<<>>, split(joined, "/"))
    IN IF segs = <<>> THEN <<"/">> ELSE joinSegments(segs)

----------------------------------------------------------------------------
(* api.ts: validateApiKey and the MIME tables *)

MinKeyLength == 10

\* mutant: the length check is missing
validateApiKeyAnyLength(key) ==
    IF ~ Truthy(key)
    THEN "API key is required. Set GEMINI_API_KEY environment variable or use -k/--key option."
    ELSE Null

validateApiKey(key) ==
    IF ~ Truthy(key)
    THEN "API key is required. Set GEMINI_API_KEY environment variable or use -k/--key option."
    ELSE IF Len(key) < MinKeyLength
    THEN "API key appears to be invalid (too short)."
    ELSE Null

getExtensionForMimeType(mimeType) ==
    IF mimeType = "image/png" THEN <<".", "p", "n", "g">>
    ELSE IF mimeType = "image/jpeg" THEN <<".", "j", "p", "g">>
    ELSE IF mimeType = "image/webp" THEN <<".", "w", "e", "b", "p">>
    ELSE IF mimeType = "image/gif" THEN <<".", "g", "i", "f">>
    ELSE <<".", "p", "n", "g">>

getMimeTypeFromExtension(filePath) ==
    LET pieces == split(toLowerCase(filePath), ".")
        ext == pieces[Len(pieces)]
    IN IF ext = <<"p", "n", "g">> THEN "image/png"
       ELSE IF ext \in {<<"j", "p", "g">>, <<"j", "p", "e", "g">>} THEN "image/jpeg"
       ELSE IF ext = <<"w", "e", "b", "p">> THEN "image/webp"
       ELSE IF ext = <<"g", "i", "f">> THEN "image/gif"
       ELSE "image/png"

----------------------------------------------------------------------------
(* cli.ts: parseOptions, generateOutputFilename, loadInputImage, saveImage *)

parseOptions(a) ==
    [prompt |-> a.input, key |-> a.key, output |-> a.output, model |-> a.model,
     aspectRatio |-> a.aspectRatio, size |-> a.size, count |-> parseInt(a.count),
     image |-> a.image]

\* mutant: no image gets a suffix
indexSuffixDropped(index) == <<>>

\* mutant: the suffix carries the index itself
indexSuffixFromIndex(index) == IF index = 0 THEN <<>> ELSE <<"_">> \o Digits(index)

indexSuffix(index) == IF index = 0 THEN <<>> ELSE <<"_">> \o Digits(index + 1)

\* mutant: the timestamp is part of the name under a user path too
generateOutputFilenameStamped(outputPath, index, mimeType, timestamp) ==
    LET extension == getExtensionForMimeType(mimeType) IN
    IF TruthyS(outputPath)
    THEN LET dir == dirname(outputPath)
             base == basename(outputPath, extname(outputPath))
             ext == IF extname(outputPath) # <<>> THEN extname(outputPath) ELSE extension
         IN resolve(dir, base \o <<"_">> \o Digits(timestamp) \o indexSuffix(index) \o ext)
    ELSE resolve(Cwd, <<"g", "e", "n", "e", "r", "a", "t", "e", "d", "_">> \o Digits(timestamp) \o indexSuffix(index) \o extension)

\* timestamp is the Date.now() read by this call
generateOutputFilename(outputPath, index, mimeType, timestamp) ==
    LET extension == getExtensionForMimeType(mimeType) IN
    IF TruthyS(outputPath)
    THEN LET dir == dirname(outputPath)
             base == basename(outputPath, extname(outputPath))
             ext == IF extname(outputPath) # <<>> THEN extname(outputPath) ELSE extension
         IN resolve(dir, base \o indexSuffix(index) \o ext)
    ELSE resolve(Cwd, <<"g", "e", "n", "e", "r", "a", "t", "e", "d", "_">> \o Digits(timestamp) \o indexSuffix(index) \o extension)

\* mcp-server.ts: the path builder of the MCP server;
\* timestamp is the Date.now() read when no output path is given
generateOutputPath(outputPath, mimeType, timestamp) ==
    IF TruthyS(outputPath)
    THEN resolve(Cwd, outputPath)
    ELSE resolve(Cwd, <<"g", "e", "n", "e", "r", "a", "t", "e", "d", "_">> \o Digits(timestamp) \o getExtensionForMimeType(mimeType))

\* what the file system answers for the input image path
Missing == [kind |-> "missing"]
Unreadable == [kind |-> "unreadable", message |-> "EACCES: permission denied"]
Readable(bytes) == [kind |-> "file", bytes |-> bytes]

AnyInputFile == {Missing, Unreadable, Readable(PngBytes), Readable(<<>>)}

\* the InputImage, or the message of the Error thrown
loadInputImage(imagePath, file) ==
    LET absolutePath == resolve(Cwd, imagePath) IN
    IF file.kind = "missing"
    THEN [threw |-> "Input image not found: " \o Str(absolutePath)]
    ELSE IF file.kind = "unreadable"
    THEN [threw |-> file.message]
    ELSE [data |-> toBase64(file.bytes),
          mimeType |-> getMimeTypeFromExtension(absolutePath)]

\* the file system after writeFile(filePath, data): an existing file is replaced
saveImage(fs, data, filePath) ==
    [p \in DOMAIN fs \cup {filePath} |-> IF p = filePath THEN data ELSE fs[p]]

----------------------------------------------------------------------------
(* cli.ts: run *)

generationOptions(o, key, img) ==
    [prompt |-> o.prompt, apiKey |-> key, model |-> o.model,
     aspectRatio |-> o.aspectRatio, imageSize |-> o.size, numberOfImages |-> o.count,
     inputImage |-> img]

\* mutant: the environment variable takes precedence over the option
resolveApiKeyEnvFirst(o, env) == IF Truthy(env) THEN env ELSE o.key

resolveApiKey(o, env) == IF Truthy(o.key) THEN o.key ELSE env

\* lines 437-447
startLog(o) ==
    <<"Generating image with prompt: \"" \o Str(o.prompt) \o "\"",
      "Model: " \o o.model>>
    \o (IF Truthy(o.aspectRatio) THEN <<"Aspect ratio: " \o o.aspectRatio>> ELSE <<>>)
    \o (IF Truthy(o.size) THEN <<"Size: " \o o.size>> ELSE <<>>)
    \o (IF TruthyS(o.image) THEN <<"Input image: " \o Str(o.image)>> ELSE <<>>)

Exit(code) ==
    /\ exitCode' = code
    /\ pc' = "done"

\* lines 418-447: options, credential, validation
RunStart ==
    /\ mode = "cli"
    /\ pc = "start"
    /\ LET o == parseOptions(argv)
           key == resolveApiKey(o, argv.env)
           apiKeyError == validateApiKey(key)
           err == validateOptions(o)
       IN /\ options' = o
          /\ apiKey' = key
          /\ IF apiKeyError # Null
             THEN /\ stderr' = Append(stderr, "Error: " \o apiKeyError)
                  /\ Exit(1)
                  /\ UNCHANGED <<optionsError, stdout, genOptions>>
             ELSE /\ optionsError' = err
                  /\ IF err # Null
                     THEN /\ stderr' = Append(stderr, "Error: " \o err)
                          /\ Exit(1)
                          /\ UNCHANGED <<stdout, genOptions>>
                     ELSE /\ stdout' = stdout \o startLog(o)
                          /\ UNCHANGED <<stderr, exitCode>>
                          /\ IF TruthyS(o.image)
                             THEN /\ pc' = "load"
                                  /\ UNCHANGED genOptions
                             ELSE /\ pc' = "generate"
                                  /\ genOptions' = <<generationOptions(o, key, <<>>)>>
    /\ UNCHANGED <<mode, replies, argv, inputImage, inputFile, requests, response, result,
                   imgIndex, savedPaths, files, now>>

\* lines 449-472: the input image
RunLoadInputImage ==
    /\ mode = "cli"
    /\ pc = "load"
    /\ \E file \in AnyInputFile :
          LET loaded == loadInputImage(options.image, file) IN
          /\ inputFile' = <<file>>
          /\ IF Has(loaded, "threw")
             THEN /\ stderr' = Append(stderr, "Error loading input image: " \o loaded.threw)
                  /\ Exit(1)
                  /\ UNCHANGED <<inputImage, genOptions, stdout>>
             ELSE /\ inputImage' = <<loaded>>
                  /\ stdout' = Append(stdout, "Loaded input image (" \o loaded.mimeType \o ")")
                  /\ genOptions' = <<generationOptions(options, apiKey, <<loaded>>)>>
                  /\ pc' = "generate"
                  /\ UNCHANGED <<stderr, exitCode>>
    /\ UNCHANGED <<mode, replies, argv, options, apiKey, optionsError, requests, response, result,
                   imgIndex, savedPaths, files, now>>

\* mutant: a Failure result is answered by one more request
RunCheckResultRetries ==
    /\ mode = "cli"
    /\ pc = "generated"
    /\ LET r == result[1] IN
       IF ~ r.success /\ Len(requests) < 2
       THEN /\ pc' = "generate"
            /\ UNCHANGED <<stderr, stdout, exitCode>>
       ELSE IF ~ r.success
       THEN /\ stderr' = Append(stderr, "Error: " \o r.error)
            /\ stdout' = IF Has(r, "text")
                         THEN Append(stdout, "API response text: " \o r.text)
                         ELSE stdout
            /\ Exit(1)
       ELSE IF ~ Has(r, "images") \/ Len(r.images) = 0
       THEN /\ stderr' = Append(stderr, "Error: No images were generated")
            /\ Exit(1)
            /\ UNCHANGED stdout
       ELSE /\ pc' = "save"
            /\ UNCHANGED <<stderr, stdout, exitCode>>
    /\ UNCHANGED <<mode, replies, argv, options, apiKey, optionsError, inputImage, inputFile,
                   genOptions, requests, response, result, imgIndex, savedPaths, files,
                   now>>

\* lines 476-487: the result of generateImage
RunCheckResult ==
    /\ mode = "cli"
    /\ pc = "generated"
    /\ LET r == result[1] IN
       IF ~ r.success
       THEN /\ stderr' = Append(stderr, "Error: " \o r.error)
            /\ stdout' = IF Has(r, "text")
                         THEN Append(stdout, "API response text: " \o r.text)
                         ELSE stdout
            /\ Exit(1)
       ELSE IF ~ Has(r, "images") \/ Len(r.images) = 0
       THEN /\ stderr' = Append(stderr, "Error: No images were generated")
            /\ Exit(1)
            /\ UNCHANGED stdout
       ELSE /\ pc' = "save"
            /\ UNCHANGED <<stderr, stdout, exitCode>>
    /\ UNCHANGED <<mode, replies, argv, options, apiKey, optionsError, inputImage, inputFile,
                   genOptions, requests, response, result, imgIndex, savedPaths, files,
                   now>>

\* the outcome of mkdir + writeFile
WriteOutcomes == {"written", "EACCES: permission denied"}

\* mutant: the reported count leaves out the last image
finishLogCountsFromZero(r, saved) ==
    (IF Has(r, "text") THEN <<"API response: " \o r.text>> ELSE <<>>)
    \o <<"Successfully generated " \o ToString(Len(saved) - 1) \o " image(s).">>

\* lines 512-517
finishLog(r, saved) ==
    (IF Has(r, "text") THEN <<"API response: " \o r.text>> ELSE <<>>)
    \o <<"Successfully generated " \o ToString(Len(saved)) \o " image(s).">>

\* mutant: a failed write is reported and the loop goes on to the next image
RunSaveImageKeepsGoing ==
    /\ mode = "cli"
    /\ pc = "save"
    /\ imgIndex < Len(result[1].images)
    /\ \E timestamp \in now..MaxClock, written \in WriteOutcomes :
          LET image == result[1].images[imgIndex + 1]
              outputPath == generateOutputFilename(options.output, imgIndex,
                                                   image.mimeType, timestamp)
              saved == Append(savedPaths, outputPath)
          IN /\ now' = timestamp
             /\ IF written # "written"
                THEN /\ stderr' = Append(stderr, "Error saving image "
                                         \o ToString(imgIndex + 1) \o ": " \o written)
                     /\ imgIndex' = imgIndex + 1
                     /\ UNCHANGED <<files, savedPaths>>
                     /\ IF imgIndex + 1 < Len(result[1].images)
                        THEN UNCHANGED <<pc, exitCode, stdout>>
                        ELSE /\ stdout' = stdout \o finishLog(result[1], savedPaths)
                             /\ Exit(0)
                ELSE /\ files' = saveImage(files, image.data, outputPath)
                     /\ savedPaths' = saved
                     /\ imgIndex' = imgIndex + 1
                     /\ UNCHANGED stderr
                     /\ IF imgIndex + 1 < Len(result[1].images)
                        THEN /\ stdout' = Append(stdout, "Image saved: " \o Str(outputPath))
                             /\ UNCHANGED <<pc, exitCode>>
                        ELSE /\ stdout' = Append(stdout, "Image saved: " \o Str(outputPath))
                                          \o finishLog(result[1], saved)
                             /\ Exit(0)
    /\ UNCHANGED <<mode, replies, argv, options, apiKey, optionsError, inputImage, inputFile,
                   genOptions, requests, response, result>>

\* lines 490-517: one turn of the save loop, and the end of run after the last
RunSaveImage ==
    /\ mode = "cli"
    /\ pc = "save"
    /\ imgIndex < Len(result[1].images)
    /\ \E timestamp \in now..MaxClock, written \in WriteOutcomes :
          LET image == result[1].images[imgIndex + 1]
              outputPath == generateOutputFilename(options.output, imgIndex,
                                                   image.mimeType, timestamp)
              saved == Append(savedPaths, outputPath)
          IN /\ now' = timestamp
             /\ IF written # "written"
                THEN /\ stderr' = Append(stderr, "Error saving image "
                                         \o ToString(imgIndex + 1) \o ": " \o written)
                     /\ Exit(1)
                     /\ UNCHANGED <<files, savedPaths, imgIndex, stdout>>
                ELSE /\ files' = saveImage(files, image.data, outputPath)
                     /\ savedPaths' = saved
                     /\ imgIndex' = imgIndex + 1
                     /\ UNCHANGED stderr
                     /\ IF imgIndex + 1 < Len(result[1].images)
                        THEN /\ stdout' = Append(stdout, "Image saved: " \o Str(outputPath))
                             /\ UNCHANGED <<pc, exitCode>>
                        ELSE /\ stdout' = Append(stdout, "Image saved: " \o Str(outputPath))
                                          \o finishLog(result[1], saved)
                             /\ Exit(0)
    /\ UNCHANGED <<mode, replies, argv, options, apiKey, optionsError, inputImage, inputFile,
                   genOptions, requests, response, result>>

----------------------------------------------------------------------------
(* One CLI invocation *)

\* <<the -k/--key option, process.env.GEMINI_API_KEY>>
RunKeys == {<<Undefined, Undefined>>, <<"short", "env-api-key-67890">>,
            <<Undefined, "env-api-key-67890">>, <<"valid-api-key-12345", Undefined>>,
            <<"", "">>, <<"", "env-api-key-67890">>, <<Undefined, "123456789">>,
            <<"1234567890", "short">>}
RunPrompts == {<<>>, <<" ">>, <<"A", " ", "r", "e", "d", " ", "c", "i", "r", "c", "l", "e">>}
RunModels == {"", "invalid-model"} \cup Range(AVAILABLE_MODELS)
RunAspectRatios == {Undefined, "16:9", "16:10"}
RunSizes == {Undefined, "8K"}
RunCounts == {<<"1">>, <<"4">>, <<"0">>, <<"5">>, <<"a", "b", "c">>}
RunImages == {UndefinedS, <<"i", "n", ".", "J", "P", "G">>}
RunOutputs == {UndefinedS, <<"l", "o", "g", "o", ".", "p", "n", "g">>, <<"o", "u", "t", "/", "p", "i", "c">>}

AnyArgv ==
    {[key |-> k[1], env |-> k[2], input |-> i, model |-> m, aspectRatio |-> a,
      size |-> s, count |-> c, image |-> img, output |-> out] :
        k \in RunKeys, i \in RunPrompts, m \in RunModels, a \in RunAspectRatios,
        s \in RunSizes, c \in RunCounts, img \in RunImages, out \in RunOutputs}

Init ==
    /\ pc = "start"
    /\ \E a \in AnyArgv : Idle("cli", a, NoOptions)

Next ==
    \/ RunStart
    \/ RunLoadInputImage
    \/ GenerateFetch
    \/ GenerateReturn
    \/ RunCheckResult
    \/ RunSaveImage

Spec == Init /\ [][Next]_vars

----------------------------------------------------------------------------
(* The artifact namer and the MIME tables, called directly *)

\* user output paths: none, relative, nested, absolute, climbing; with and
\* without an extension, a dot file, a trailing dot, a trailing slash
AnyOutputPath ==
    {UndefinedS, <<>>}
    \cup {d \o n : d \in {<<>>, <<"o", "u", "t", "/">>, <<"/", "t", "m", "p", "/">>, <<".", ".", "/", "u", "p", "/">>, <<".", "/", "a", "/">>},
                   n \in {<<"p", "i", "c">>, <<"p", "i", "c", ".", "p", "n", "g">>, <<"p", "i", "c", ".", "J", "P", "G">>, <<".", "e", "n", "v">>, <<"a", ".", "t", "a", "r", ".", "g", "z">>, <<"p", "i", "c", ".">>, <<"d", "i", "r", "/">>}}

AnyMimeType == {"image/png", "image/jpeg", "image/webp", "image/gif", "image/bmp", ""}

AnyFilePath ==
    {<<"f", ".", "p", "n", "g">>, <<"f", ".", "j", "p", "g">>, <<"f", ".", "j", "p", "e", "g">>, <<"f", ".", "w", "e", "b", "p">>, <<"f", ".", "g", "i", "f">>, <<"F", ".", "P", "N", "G">>, <<"a", ".", "J", "p", "g">>, <<"b", ".", "J", "P", "E", "G">>,
     <<"/", "w", "/", "x", ".", "W", "e", "b", "P">>, <<"c", ".", "G", "i", "F">>, <<"f", ".", "b", "m", "p">>, <<"n", "o", "t", "e", "s", ".", "t", "x", "t">>, <<"a", ".", "p", "n", "g", ".", "t", "x", "t">>, <<"v", "1", ".", "2", "/", "i", "m", "g">>, <<"n", "o", "e", "x", "t">>,
     <<"f", ".">>, <<>>, <<"p", "n", "g">>, <<"g", "i", "f">>, <<"/", "w", "/", "j", "p", "g">>, <<".", "w", "e", "b", "p">>}

\* one call of one of the three functions
AnyNamerCall ==
    [fn : {"generateOutputFilename"}, outputPath : AnyOutputPath,
     index : 0..MaxRunImages \cup {9, 10}, mimeType : AnyMimeType]
    \cup [fn : {"generateOutputPath"}, outputPath : AnyOutputPath,
          mimeType : AnyMimeType]
    \cup [fn : {"getExtensionForMimeType"}, mimeType : AnyMimeType]
    \cup [fn : {"getMimeTypeFromExtension"}, filePath : AnyFilePath]

InitNamer ==
    /\ pc = "call"
    /\ \E call \in AnyNamerCall : Idle("namer", call, NoOptions)

CallGenerateOutputFilename ==
    /\ mode = "namer"
    /\ pc = "call"
    /\ argv.fn = "generateOutputFilename"
    /\ \E timestamp \in now..MaxClock :
          /\ now' = timestamp
          /\ replies' = <<generateOutputFilename(argv.outputPath, argv.index,
                                                 argv.mimeType, timestamp)>>
    /\ pc' = "returned"
    /\ UNCHANGED <<mode, argv, options, apiKey, optionsError, inputImage, inputFile,
                   genOptions, requests, response, result, imgIndex, savedPaths, files,
                   stderr, stdout, exitCode>>

\* the same call once more, at the same or a later time
CallGenerateOutputFilenameAgain ==
    /\ mode = "namer"
    /\ pc = "returned"
    /\ argv.fn = "generateOutputFilename"
    /\ \E timestamp \in now..MaxClock :
          /\ now' = timestamp
          /\ replies' = Append(replies, generateOutputFilename(argv.outputPath, argv.index,
                                                               argv.mimeType, timestamp))
    /\ pc' = "returned twice"
    /\ UNCHANGED <<mode, argv, options, apiKey, optionsError, inputImage, inputFile,
                   genOptions, requests, response, result, imgIndex, savedPaths, files,
                   stderr, stdout, exitCode>>

\* the path builder of the MCP server, called with the same arguments
CallGenerateOutputPath ==
    /\ mode = "namer"
    /\ pc = "call"
    /\ argv.fn = "generateOutputPath"
    /\ \E timestamp \in now..MaxClock :
          /\ now' = timestamp
          /\ replies' = <<generateOutputPath(argv.outputPath, argv.mimeType, timestamp)>>
    /\ pc' = "returned"
    /\ UNCHANGED <<mode, argv, options, apiKey, optionsError, inputImage, inputFile,
                   genOptions, requests, response, result, imgIndex, savedPaths, files,
                   stderr, stdout, exitCode>>

CallGetExtensionForMimeType ==
    /\ mode = "namer"
    /\ pc = "call"
    /\ argv.fn = "getExtensionForMimeType"
    /\ replies' = <<getExtensionForMimeType(argv.mimeType)>>
    /\ pc' = "returned"
    /\ UNCHANGED <<mode, argv, options, apiKey, optionsError, inputImage, inputFile,
                   genOptions, requests, response, result, imgIndex, savedPaths, files,
                   now, stderr, stdout, exitCode>>

CallGetMimeTypeFromExtension ==
    /\ mode = "namer"
    /\ pc = "call"
    /\ argv.fn = "getMimeTypeFromExtension"
    /\ replies' = <<getMimeTypeFromExtension(argv.filePath)>>
    /\ pc' = "returned"
    /\ UNCHANGED <<mode, argv, options, apiKey, optionsError, inputImage, inputFile,
                   genOptions, requests, response, result, imgIndex, savedPaths, files,
                   now, stderr, stdout, exitCode>>

NextNamer ==
    \/ CallGenerateOutputFilename
    \/ CallGenerateOutputFilenameAgain
    \/ CallGenerateOutputPath
    \/ CallGetExtensionForMimeType
    \/ CallGetMimeTypeFromExtension

SpecNamer == InitNamer /\ [][NextNamer]_vars

----------------------------------------------------------------------------
(* mcp-server.ts: one tools/call request *)

\* the key, or the message of the Error thrown
getApiKey(env) ==
    IF ~ Truthy(env)
    THEN [threw |-> "GEMINI_API_KEY environment variable is required. Get your API key from https://aistudio.google.com/apikey"]
    ELSE [apiKey |-> env]

\* the { data, mimeType } object, or the message of the Error thrown
loadImage(imagePath, file) ==
    LET absolutePath == resolve(Cwd, imagePath) IN
    IF file.kind = "missing"
    THEN [threw |-> "Input image not found: " \o Str(absolutePath)]
    ELSE IF file.kind = "unreadable"
    THEN [threw |-> file.message]
    ELSE [data |-> toBase64(file.bytes),
          mimeType |-> getMimeTypeFromExtension(absolutePath)]

\* lines 179-185 and 217-222: the argument of generateImage; a property the
\* handler does not pass is undefined
toolGenerationOptions(name, args, key, img) ==
    [prompt |-> args.prompt, apiKey |-> key, model |-> args.model,
     aspectRatio |-> IF name = "generate_image" THEN args.aspectRatio ELSE Undefined,
     imageSize |-> IF name = "generate_image" THEN args.size ELSE Undefined,
     numberOfImages |-> NumUndefined,
     inputImage |-> img]

\* mutant: the response reports the output argument, not the path written
successTextUnresolved(name, args, outputPath, r) ==
    (IF name = "generate_image"
     THEN [success |-> TRUE, path |-> args.output,
           message |-> "Image generated successfully: " \o Str(outputPath)]
     ELSE [success |-> TRUE, path |-> args.output,
           message |-> "Image modified successfully: " \o Str(outputPath),
           inputImage |-> resolve(Cwd, args.inputImage)])
    @@ (IF Has(r, "text") THEN [description |-> r.text] ELSE EmptyObject)

\* lines 195-200 and 232-238: the object given to JSON.stringify, which leaves
\* out a description that is undefined. A JSON text is kept as the object it
\* denotes; a path in it as the path.
successText(name, args, outputPath, r) ==
    (IF name = "generate_image"
     THEN [success |-> TRUE, path |-> outputPath,
           message |-> "Image generated successfully: " \o Str(outputPath)]
     ELSE [success |-> TRUE, path |-> outputPath,
           message |-> "Image modified successfully: " \o Str(outputPath),
           inputImage |-> resolve(Cwd, args.inputImage)])
    @@ (IF Has(r, "text") THEN [description |-> r.text] ELSE EmptyObject)

\* lines 281-288
toolResult(text) == [content |-> <<[type |-> "text", text |-> text]>>]

\* mutant: the error response does not carry isError
toolErrorUnflagged(errorMessage) ==
    [content |-> <<[type |-> "text",
                    text |-> [success |-> FALSE, error |-> errorMessage]]>>]

\* lines 289-303
toolError(errorMessage) ==
    [content |-> <<[type |-> "text",
                    text |-> [success |-> FALSE, error |-> errorMessage]]>>,
     isError |-> TRUE]

Respond(reply) ==
    /\ replies' = Append(replies, reply)
    /\ pc' = "responded"

\* lines 263-279 with 177 and 212-215: dispatch on the tool name, getApiKey,
\* loadImage, up to the call of generateImage
CallTool ==
    /\ mode = "mcp"
    /\ pc = "call"
    /\ LET args == argv.arguments
           key == getApiKey(argv.env)
       IN IF argv.name \notin {"generate_image", "modify_image"}
          THEN /\ Respond(toolError("Unknown tool: " \o argv.name))
               /\ UNCHANGED <<apiKey, inputImage, inputFile, genOptions>>
          ELSE IF Has(key, "threw")
          THEN /\ Respond(toolError(key.threw))
               /\ UNCHANGED <<apiKey, inputImage, inputFile, genOptions>>
          ELSE IF argv.name = "generate_image"
          THEN /\ apiKey' = key.apiKey
               /\ genOptions' = <<toolGenerationOptions(argv.name, args, key.apiKey, <<>>)>>
               /\ pc' = "generate"
               /\ UNCHANGED <<inputImage, inputFile, replies>>
          ELSE \E file \in AnyInputFile :
                  LET loaded == loadImage(args.inputImage, file) IN
                  /\ apiKey' = key.apiKey
                  /\ inputFile' = <<file>>
                  /\ IF Has(loaded, "threw")
                     THEN /\ Respond(toolError(loaded.threw))
                          /\ UNCHANGED <<inputImage, genOptions>>
                     ELSE /\ inputImage' = <<loaded>>
                          /\ genOptions' = <<toolGenerationOptions(argv.name, args,
                                                                   key.apiKey, <<loaded>>)>>
                          /\ pc' = "generate"
                          /\ UNCHANGED replies
    /\ UNCHANGED <<mode, argv, options, optionsError, requests, response, result,
                   imgIndex, savedPaths, files, now, stderr, stdout, exitCode>>

\* lines 187-200 and 224-238, then 281-304: the result of generateImage, the
\* first image written by saveImage (lines 140-144: mkdir and writeFile, as in
\* cli.ts), the response
CallToolFinish ==
    /\ mode = "mcp"
    /\ pc = "generated"
    /\ LET r == result[1]
           args == argv.arguments
           failed == IF argv.name = "generate_image" THEN "Failed to generate image"
                     ELSE "Failed to modify image"
       IN IF ~ r.success \/ ~ Has(r, "images") \/ Len(r.images) = 0
          THEN /\ Respond(toolError(IF Has(r, "error") /\ r.error # "" THEN r.error
                                    ELSE failed))
               /\ UNCHANGED <<files, now>>
          ELSE \E timestamp \in (IF TruthyS(args.output) THEN {now} ELSE now..MaxClock),
                  written \in WriteOutcomes :
                  LET image == r.images[1]
                      outputPath == generateOutputPath(args.output, image.mimeType,
                                                       timestamp)
                  IN /\ now' = timestamp
                     /\ IF written # "written"
                        THEN /\ Respond(toolError(written))
                             /\ UNCHANGED files
                        ELSE /\ files' = saveImage(files, image.data, outputPath)
                             /\ Respond(toolResult(successText(argv.name, args,
                                                               outputPath, r)))
    /\ UNCHANGED <<mode, argv, options, apiKey, optionsError, inputImage, inputFile,
                   genOptions, requests, response, result, imgIndex, savedPaths,
                   stderr, stdout, exitCode>>

\* the requests a client can send: the arguments are not checked against the
\* input schema before the handler runs
AnyToolCall ==
    [name : {"generate_image"},
     env : {Undefined, "", "short", "env-api-key-67890"},
     arguments : [prompt : RunPrompts, output : RunOutputs,
                  model : {Undefined, "gemini-2.0-flash-exp", "invalid-model"},
                  aspectRatio : {Undefined, "16:10"}, size : {Undefined, "8K"},
                  inputImage : {UndefinedS}]]
    \cup [name : {"modify_image"},
          env : {Undefined, "", "short", "env-api-key-67890"},
          arguments : [prompt : RunPrompts, output : RunOutputs,
                       model : {Undefined, "gemini-2.0-flash-exp", "invalid-model"},
                       aspectRatio : {Undefined}, size : {Undefined},
                       inputImage : {<<"i", "n", ".", "J", "P", "G">>}]]
    \cup [name : {"list_models"},
          env : {Undefined, "env-api-key-67890"},
          arguments : [prompt : RunPrompts, output : {UndefinedS}, model : {Undefined},
                       aspectRatio : {Undefined}, size : {Undefined},
                       inputImage : {UndefinedS}]]

InitMcp ==
    /\ pc = "call"
    /\ \E call \in AnyToolCall : Idle("mcp", call, NoOptions)

NextMcp ==
    \/ CallTool
    \/ GenerateFetch
    \/ GenerateReturn
    \/ CallToolFinish

SpecMcp == InitMcp /\ [][NextMcp]_vars

----------------------------------------------------------------------------

(* mcp-server.ts: two generate_image calls handled concurrently by one      *)
(* server process. Per-call state is a function of the call number 1, 2;    *)
(* the file system and the clock are shared. A handler runs undisturbed     *)
(* from one await to the next.                                              *)

\* both calls carry a prompt and no output argument; the key is set
InitMcpPair ==
    /\ pc = <<"call", "call">>
    /\ \E p1, p2 \in {<<"A", " ", "r", "e", "d", " ", "c", "i", "r", "c", "l", "e">>, <<"A", " ", "b", "l", "u", "e", " ", "s", "q", "u", "a", "r", "e">>} :
          Idle("mcp pair",
               [c \in 1..2 |->
                   [name |-> "generate_image", env |-> "env-api-key-67890",
                    arguments |-> [prompt |-> IF c = 1 THEN p1 ELSE p2,
                                   output |-> UndefinedS, model |-> Undefined,
                                   aspectRatio |-> Undefined, size |-> Undefined,
                                   inputImage |-> UndefinedS]]],
               NoOptions)

\* lines 263-270, 177-185 and generateImage up to its await fetch (line 65)
PairCallTool(c) ==
    /\ mode = "mcp pair"
    /\ pc[c] = "call"
    /\ LET o == toolGenerationOptions(argv[c].name, argv[c].arguments,
                                      getApiKey(argv[c].env).apiKey, <<>>)
       IN /\ genOptions' = genOptions @@ (c :> o)
          /\ requests' = Append(requests, fetchRequest(o))
    /\ pc' = [pc EXCEPT ![c] = "fetching"]
    /\ UNCHANGED <<mode, argv, options, apiKey, optionsError, inputImage, inputFile,
                   response, result, imgIndex, savedPaths, files, now, stderr, stdout,
                   exitCode, replies>>

\* generateImage from the settling of its fetch, then lines 187-193: the
\* result, generateOutputPath (which reads the clock), up to the first await
\* of saveImage
PairPlanOutput(c) ==
    /\ mode = "mcp pair"
    /\ pc[c] = "fetching"
    /\ \E outcome \in Outcomes("mcp") :
          LET r == generateImageResult(outcome) IN
          /\ response' = response @@ (c :> outcome)
          /\ result' = result @@ (c :> r)
          /\ IF ~ r.success \/ ~ Has(r, "images") \/ Len(r.images) = 0
             THEN /\ replies' = replies @@ (c :> toolError(IF Has(r, "error") /\ r.error # ""
                                                          THEN r.error
                                                          ELSE "Failed to generate image"))
                  /\ pc' = [pc EXCEPT ![c] = "responded"]
                  /\ UNCHANGED <<savedPaths, now>>
             ELSE \E timestamp \in now..MaxClock :
                     /\ now' = timestamp
                     /\ savedPaths' = savedPaths @@
                           (c :> generateOutputPath(argv[c].arguments.output,
                                                    r.images[1].mimeType, timestamp))
                     /\ pc' = [pc EXCEPT ![c] = "saving"]
                     /\ UNCHANGED replies
    /\ UNCHANGED <<mode, argv, options, apiKey, optionsError, inputImage, inputFile,
                   genOptions, requests, imgIndex, files, stderr, stdout, exitCode>>

\* lines 140-144 and 195-200, then 281-304: mkdir and writeFile settle, the
\* response
PairSaveImage(c) ==
    /\ mode = "mcp pair"
    /\ pc[c] = "saving"
    /\ \E written \in WriteOutcomes :
          IF written # "written"
          THEN /\ replies' = replies @@ (c :> toolError(written))
               /\ UNCHANGED files
          ELSE /\ files' = saveImage(files, result[c].images[1].data, savedPaths[c])
               /\ replies' = replies @@
                     (c :> toolResult(successText(argv[c].name, argv[c].arguments,
                                                  savedPaths[c], result[c])))
    /\ pc' = [pc EXCEPT ![c] = "responded"]
    /\ UNCHANGED <<mode, argv, options, apiKey, optionsError, inputImage, inputFile,
                   genOptions, requests, response, result, imgIndex, savedPaths, now,
                   stderr, stdout, exitCode>>

NextMcpPair ==
    \E c \in 1..2 :
        \/ PairCallTool(c)
        \/ PairPlanOutput(c)
        \/ PairSaveImage(c)

SpecMcpPair == InitMcpPair /\ [][NextMcpPair]_vars

----------------------------------------------------------------------------

(* Properties of one CLI invocation (Spec) *)

Finished == pc = "done"

\* the credential the invocation was given: the key option, else the variable
GivenKey == IF argv.key \notin {Undefined, ""} THEN argv.key ELSE argv.env
CredentialFails == GivenKey \in {Undefined, ""} \/ Len(GivenKey) < 10
OptionsFail == validateOptions(parseOptions(argv)) # Null
InputImageMissing == inputFile # <<>> /\ inputFile[1].kind = "missing"

\* C1: when the credential is missing or too short, validateOptions reports an
\* error, or the input image file does not exist, no HTTP request is issued, no
\* file is written and run returns 1.
C1_NoRequestOnEarlyFailure ==
    (mode = "cli" /\ (CredentialFails \/ OptionsFail \/ InputImageMissing)) =>
        /\ requests = <<>>
        /\ DOMAIN files = {}
        /\ pc = "start" \/ (Finished /\ exitCode = 1)

\* an invocation with a too-short key has returned
C1_Witness ==
    /\ Finished
    /\ argv.key = "short"
    /\ ~ OptionsFail
    /\ exitCode = 1
    /\ requests = <<>>

AllImagesWritten ==
    /\ result # <<>>
    /\ result[1].success
    /\ Has(result[1], "images")
    /\ Len(result[1].images) >= 1
    /\ Len(savedPaths) = Len(result[1].images)
    /\ \A k \in 1..Len(savedPaths) :
          /\ savedPaths[k] \in DOMAIN files
          /\ files[savedPaths[k]] = result[1].images[k].data

FullSuccess ==
    /\ ~ CredentialFails
    /\ ~ OptionsFail
    /\ argv.image \notin {UndefinedS, <<>>} => inputImage # <<>>
    /\ AllImagesWritten

\* C2: run returns 0 iff credential and options are valid, the input image (if
\* any) was loaded, the result is Success with at least one image and every
\* returned image was written; in every other outcome it returns 1.
C2_ExitZeroIffFullSuccess ==
    (mode = "cli" /\ Finished) =>
        /\ exitCode \in {0, 1}
        /\ exitCode = 0 <=> FullSuccess

\* the second of two images could not be written: the first file stays, exit 1
C2_Witness ==
    /\ Finished
    /\ exitCode = 1
    /\ result # <<>> /\ result[1].success /\ Len(result[1].images) = 2
    /\ Len(savedPaths) = 1
    /\ Cardinality(DOMAIN files) = 1

LogoPng == <<"l", "o", "g", "o", ".", "p", "n", "g">>
LogoFile(k) ==
    <<"/", "w", "/", "l", "o", "g", "o">> \o (IF k = 1 THEN <<>> ELSE <<"_">> \o Digits(k)) \o <<".", "p", "n", "g">>

\* C3: a successful invocation with count N and output logo.png creates exactly
\* the N files logo.png, logo_2.png, ..., logo_N.png.
C3_CountDeterminesFiles ==
    (mode = "cli" /\ Finished /\ exitCode = 0 /\ argv.output = LogoPng) =>
        /\ options.count.kind = "num"
        /\ Len(result[1].images) = options.count.twice \div 2
        /\ DOMAIN files = {LogoFile(k) : k \in 1..(options.count.twice \div 2)}

----------------------------------------------------------------------------
(* Properties of validateOptions (SpecValidate) *)

IsMember(xs, x) == x \in Range(xs)
UnsetOrMember(xs, x) == x = Undefined \/ IsMember(xs, x)
PromptGiven(o) == o.prompt # UndefinedS /\ \E k \in 1..Len(o.prompt) : o.prompt[k] = "a"
CountInRange(c) == c.kind = "num" /\ c.twice \in {2, 4, 6, 8}
UnsetOrInRange(c) == c.kind = "undefined" \/ CountInRange(c)

InvalidModelMessage ==
    "Invalid model. Available models: gemini-2.0-flash-exp, imagen-3.0-generate-002"

\* C4: with a non-blank prompt and otherwise valid options, every model value
\* outside the two-entry set, the empty string included, is rejected with the
\* "Invalid model" message, and both members of the set are accepted.
C4_ModelOutsideSetRejected ==
    (pc = "validated" /\ PromptGiven(options) /\ options.model # Undefined
       /\ UnsetOrMember(AVAILABLE_ASPECT_RATIOS, options.aspectRatio)
       /\ UnsetOrMember(AVAILABLE_IMAGE_SIZES, options.size)
       /\ UnsetOrInRange(options.count))
    => IF IsMember(AVAILABLE_MODELS, options.model)
       THEN optionsError = Null
       ELSE optionsError = InvalidModelMessage

\* C5: a count that is set is accepted iff it is an integer in [1,4]; every
\* other count (below 1, above 4, NaN, non-integer) yields the count message.
C5_CountAcceptedIffIntegerInRange ==
    (pc = "validated" /\ PromptGiven(options)
       /\ UnsetOrMember(AVAILABLE_MODELS, options.model)
       /\ UnsetOrMember(AVAILABLE_ASPECT_RATIOS, options.aspectRatio)
       /\ UnsetOrMember(AVAILABLE_IMAGE_SIZES, options.size)
       /\ options.count.kind # "undefined")
    => IF CountInRange(options.count)
       THEN optionsError = Null
       ELSE optionsError = "Count must be a number between 1 and 4."

----------------------------------------------------------------------------
(* Properties of the request built by generateImage (SpecRequest) *)

\* a value was supplied: neither undefined nor the empty string, which the
\* code treats alike everywhere
Supplied(x) == x # Undefined /\ x # ""

\* C6: imageConfig is present iff an aspect ratio or a size was supplied; when
\* present it holds aspectRatio iff one was supplied and imageSize iff one was
\* supplied, each with the supplied value, and nothing else.
C6_ImageConfigIffSupplied ==
    \A k \in 1..Len(requests) :
        LET o == genOptions[1]
            gc == requests[k].body.generationConfig
        IN /\ Has(gc, "imageConfig") <=> (Supplied(o.aspectRatio) \/ Supplied(o.imageSize))
           /\ Has(gc, "imageConfig") =>
                /\ DOMAIN gc.imageConfig \subseteq {"aspectRatio", "imageSize"}
                /\ Has(gc.imageConfig, "aspectRatio") <=> Supplied(o.aspectRatio)
                /\ Has(gc.imageConfig, "imageSize") <=> Supplied(o.imageSize)
                /\ Has(gc.imageConfig, "aspectRatio") =>
                      gc.imageConfig.aspectRatio = o.aspectRatio
                /\ Has(gc.imageConfig, "imageSize") =>
                      gc.imageConfig.imageSize = o.imageSize

\* a request went out with an aspect ratio and without a size
C6_Witness ==
    /\ Len(requests) = 1
    /\ genOptions[1].aspectRatio = "21:9"
    /\ genOptions[1].imageSize = Undefined
    /\ Has(requests[1].body.generationConfig, "imageConfig")
    /\ DOMAIN requests[1].body.generationConfig.imageConfig = {"aspectRatio"}

\* C7: the content parts start with exactly one text part equal to the prompt
\* verbatim; there are two parts, the second an inline-data part with the input
\* image's MIME type and base64 data, iff an input image is present, else one.
C7_PartsTextThenImage ==
    \A k \in 1..Len(requests) :
        LET o == genOptions[1]
            contents == requests[k].body.contents
            parts == contents[1].parts
        IN /\ Len(contents) = 1
           /\ DOMAIN parts[1] = {"text"}
           /\ parts[1].text = o.prompt
           /\ Len(parts) = (IF o.inputImage = <<>> THEN 1 ELSE 2)
           /\ Len(parts) = 2 =>
                /\ DOMAIN parts[2] = {"inlineData"}
                /\ parts[2].inlineData.mimeType = o.inputImage[1].mimeType
                /\ parts[2].inlineData.data = o.inputImage[1].data

\* a request with an input image whose prompt has surrounding whitespace
C7_Witness ==
    /\ Len(requests) = 1
    /\ genOptions[1].inputImage # <<>>
    /\ genOptions[1].prompt = <<" ", "a">>
    /\ Len(requests[1].body.contents[1].parts) = 2

----------------------------------------------------------------------------
(* Properties of the interpretation of the answer (SpecInterpret) *)

Returned == pc = "generated"
Answer == response[1]
Res == result[1]
Answered == Returned /\ Answer.kind = "response"
Parsed == Answered /\ Answer.body.kind = "json"
Data == Answer.body.data

VendorMessage(d) == Has(d, "error") /\ Has(d.error, "message") /\ d.error.message # ""
Blocked(d) == Has(d, "promptFeedback") /\ Has(d.promptFeedback, "blockReason")
WellFormed(c) == Has(c, "content") /\ Has(c.content, "parts")

RECURSIVE AllParts(_)
AllParts(cs) ==
    IF cs = <<>> THEN <<>>
    ELSE (IF WellFormed(Head(cs)) THEN Head(cs).content.parts ELSE <<>>)
         \o AllParts(Tail(cs))

TextIndices(ps) == {k \in 1..Len(ps) : Has(ps[k], "text") /\ ps[k].text # ""}
LastOf(S) == CHOOSE k \in S : \A j \in S : j <= k
NoInlineData(cs) == \A k \in 1..Len(AllParts(cs)) : ~ Has(AllParts(cs)[k], "inlineData")

CarriesScannedText(r, cs) ==
    LET ps == AllParts(cs) IN
    IF TextIndices(ps) = {} THEN ~ Has(r, "text")
    ELSE Has(r, "text") /\ r.text = ps[LastOf(TextIndices(ps))].text

OnlyText(r, cs) ==
    /\ r.success = FALSE
    /\ r.error = "No images generated. The API returned only text."
    /\ CarriesScannedText(r, cs)

\* C8: every answer with a non-OK status, whatever its body, yields Failure
\* with the vendor's error message if present, else "HTTP <status>: <statusText>".
C8_NonOkYieldsHttpError ==
    (Answered /\ ~ Answer.ok) =>
        /\ Res.success = FALSE
        /\ Res.error = IF Answer.body.kind = "json" /\ VendorMessage(Data)
                       THEN Data.error.message
                       ELSE "HTTP " \o ToString(Answer.status) \o ": " \o Answer.statusText

\* C9 as stated: an OK answer with a non-empty candidate list and no
\* inline-data part in any candidate yields the "No images generated" Failure
\* carrying the scanned text.
C9_NoInlineDataYieldsOnlyText ==
    (Parsed /\ Answer.ok /\ Has(Data, "candidates") /\ Len(Data.candidates) > 0
       /\ NoInlineData(Data.candidates))
    => OnlyText(Res, Data.candidates)

\* C9 amended: the same, for an answer without a block reason whose candidates
\* all carry a content with a parts list.
C9_ScannedNoInlineDataYieldsOnlyText ==
    (Parsed /\ Answer.ok /\ Has(Data, "candidates") /\ Len(Data.candidates) > 0
       /\ NoInlineData(Data.candidates)
       /\ ~ Blocked(Data)
       /\ \A k \in 1..Len(Data.candidates) : WellFormed(Data.candidates[k]))
    => OnlyText(Res, Data.candidates)

\* two text parts in two candidates, no image: the later text is reported
C9_Witness ==
    /\ Parsed /\ Answer.ok /\ ~ Blocked(Data)
    /\ Has(Data, "candidates")
    /\ Data.candidates = <<[content |-> [parts |-> <<TextA>>]],
                           [content |-> [parts |-> <<TextB>>]]>>
    /\ Res.success = FALSE
    /\ Res.text = "Second thoughts"

Scanned ==
    Parsed /\ Answer.ok /\ ~ Blocked(Data) /\ Has(Data, "candidates")
    /\ Len(Data.candidates) > 0

\* C10: generateImage always returns a result and never lets an exception
\* escape; a rejected fetch, a body that fails to parse and a candidate
\* without content or parts each yield Failure "Request failed: <message>".
C10_NeverThrows ==
    Returned =>
        /\ DOMAIN Res \subseteq {"success", "images", "text", "error"}
        /\ Has(Res, "success")
        /\ Answer.kind = "rejected" =>
              Res = [success |-> FALSE, error |-> "Request failed: " \o Answer.message]
        /\ (Answered /\ Answer.body.kind = "unparseable") =>
              Res = [success |-> FALSE,
                     error |-> "Request failed: " \o Answer.body.message]
        /\ (Scanned /\ \E k \in 1..Len(Data.candidates) : ~ WellFormed(Data.candidates[k])) =>
              /\ Res.success = FALSE
              /\ Res.error \in {"Request failed: undefined is not iterable",
                                "Request failed: Cannot read properties of undefined (reading 'parts')"}

\* an image was collected before a candidate without content stopped the scan
C10_Witness ==
    /\ Scanned
    /\ Data.candidates = <<[content |-> [parts |-> <<ImagePng>>]],
                           [finishReason |-> "SAFETY"]>>
    /\ Res = [success |-> FALSE,
              error |-> "Request failed: Cannot read properties of undefined (reading 'parts')"]

----------------------------------------------------------------------------
(* Properties of the artifact namer and the MIME tables (SpecNamer) *)

NamerReturned(fn) == mode = "namer" /\ pc = "returned" /\ argv.fn = fn

\* the directory part of a user path and the absolute directory it names,
\* process.cwd() being /w
DirParts ==
    {[prefix |-> <<>>, dir |-> <<"/", "w">>], [prefix |-> <<"o", "u", "t", "/">>, dir |-> <<"/", "w", "/", "o", "u", "t">>],
     [prefix |-> <<"/", "t", "m", "p", "/">>, dir |-> <<"/", "t", "m", "p">>], [prefix |-> <<".", ".", "/", "u", "p", "/">>, dir |-> <<"/", "u", "p">>],
     [prefix |-> <<".", "/", "a", "/">>, dir |-> <<"/", "w", "/", "a">>]}

\* the last segment of a user path, its base and its own extension
NameParts ==
    {[name |-> <<"p", "i", "c">>, base |-> <<"p", "i", "c">>, ext |-> <<>>],
     [name |-> <<"p", "i", "c", ".", "p", "n", "g">>, base |-> <<"p", "i", "c">>, ext |-> <<".", "p", "n", "g">>],
     [name |-> <<"p", "i", "c", ".", "J", "P", "G">>, base |-> <<"p", "i", "c">>, ext |-> <<".", "J", "P", "G">>],
     [name |-> <<".", "e", "n", "v">>, base |-> <<".", "e", "n", "v">>, ext |-> <<>>],
     [name |-> <<"a", ".", "t", "a", "r", ".", "g", "z">>, base |-> <<"a", ".", "t", "a", "r">>, ext |-> <<".", "g", "z">>],
     [name |-> <<"p", "i", "c", ".">>, base |-> <<"p", "i", "c">>, ext |-> <<".">>],
     [name |-> <<"d", "i", "r", "/">>, base |-> <<"d", "i", "r">>, ext |-> <<>>]}

ExpectedSuffix(index) == IF index = 0 THEN <<>> ELSE <<"_">> \o Digits(index + 1)

ImpliedExtension(mimeType) ==
    IF mimeType = "image/jpeg" THEN <<".", "j", "p", "g">>
    ELSE IF mimeType = "image/webp" THEN <<".", "w", "e", "b", "p">>
    ELSE IF mimeType = "image/gif" THEN <<".", "g", "i", "f">>
    ELSE <<".", "p", "n", "g">>

NoUserPath == argv.outputPath \in {UndefinedS, <<>>}

\* C11: generateOutputFilename returns the absolute path <dir>/<base><suffix><ext>,
\* suffix empty for index 0 and _<index+1> otherwise, ext the user path's own
\* extension if it has one and the MIME-implied one if not; without a user path
\* it returns <cwd>/generated_<timestamp><suffix><MIME-implied extension>.
C11_NamedFromPathIndexAndMime ==
    NamerReturned("generateOutputFilename") =>
        /\ NoUserPath \/ \E d \in DirParts, n \in NameParts :
                            argv.outputPath = d.prefix \o n.name
        /\ \A d \in DirParts, n \in NameParts :
              (~ NoUserPath /\ argv.outputPath = d.prefix \o n.name) =>
                  replies[1] = d.dir \o <<"/">> \o n.base \o ExpectedSuffix(argv.index)
                               \o (IF n.ext # <<>> THEN n.ext
                                   ELSE ImpliedExtension(argv.mimeType))
        /\ NoUserPath =>
              replies[1] = <<"/", "w", "/", "g", "e", "n", "e", "r", "a", "t", "e", "d", "_">> \o Digits(now) \o ExpectedSuffix(argv.index)
                           \o ImpliedExtension(argv.mimeType)

\* the second image of a batch, a nested user path without extension, a JPEG
C11_Witness ==
    /\ NamerReturned("generateOutputFilename")
    /\ argv.outputPath = <<"o", "u", "t", "/", "p", "i", "c">>
    /\ argv.index = 1
    /\ argv.mimeType = "image/jpeg"
    /\ replies[1] = <<"/", "w", "/", "o", "u", "t", "/", "p", "i", "c", "_", "2", ".", "j", "p", "g">>

----------------------------------------------------------------------------
(* Properties of the names run gives the files of one batch (Spec) *)

\* the k-th saved path is the default name made from timestamp t
DefaultName(k, t) ==
    savedPaths[k] = <<"/", "w", "/", "g", "e", "n", "e", "r", "a", "t", "e", "d", "_">> \o Digits(t) \o ExpectedSuffix(k - 1)
                    \o ImpliedExtension(result[1].images[k].mimeType)

\* C12: in an invocation without a user output path every file of the batch
\* is named from one and the same timestamp, even if the clock advances
\* between the writes.
C12_OneTimestampPerBatch ==
    (mode = "cli" /\ ~ TruthyS(argv.output)) =>
        \E t \in 0..MaxClock : \A k \in 1..Len(savedPaths) : DefaultName(k, t)

----------------------------------------------------------------------------
(* Properties of the MIME tables (SpecNamer) *)

FourMimeTypes == {"image/png", "image/jpeg", "image/webp", "image/gif"}

\* the extension of a file path, lower-cased and without its dot: what follows
\* the last dot of the last segment; <<>> when that segment has no dot
OwnExtension(filePath) ==
    LET b == lastSegment(filePath)
        dots == {k \in 1..Len(b) : b[k] = "."}
    IN IF dots = {} THEN <<>>
       ELSE toLowerCase(SubSeq(b, LastOf(dots) + 1, Len(b)))

ExpectedMimeType(filePath) ==
    LET e == OwnExtension(filePath) IN
    IF e \in {<<"j", "p", "g">>, <<"j", "p", "e", "g">>} THEN "image/jpeg"
    ELSE IF e = <<"w", "e", "b", "p">> THEN "image/webp"
    ELSE IF e = <<"g", "i", "f">> THEN "image/gif"
    ELSE "image/png"

\* C13: getExtensionForMimeType maps the four MIME types to .png, .jpg, .webp,
\* .gif and any other to .png; getMimeTypeFromExtension maps a path by its
\* extension in any letter case to the corresponding MIME type and a path with
\* an unrecognized or absent extension to image/png; mapping a MIME type to its
\* extension and "f" + that extension back yields the MIME type.
C13_MimeTablesAgree ==
    /\ NamerReturned("getExtensionForMimeType") =>
          replies[1] = ImpliedExtension(argv.mimeType)
    /\ NamerReturned("getMimeTypeFromExtension") =>
          /\ replies[1] = ExpectedMimeType(argv.filePath)
          /\ \A m \in FourMimeTypes :
                argv.filePath = <<"f">> \o ImpliedExtension(m) => replies[1] = m

----------------------------------------------------------------------------
(* Properties of the credential in run (Spec) *)

KeyRequiredMessage ==
    "Error: API key is required. Set GEMINI_API_KEY environment variable or use -k/--key option."
KeyTooShortMessage == "Error: API key appears to be invalid (too short)."

\* C14: run uses the key option when given and the GEMINI_API_KEY value
\* otherwise; with neither non-empty it fails with "API key is required...",
\* with a value of fewer than 10 characters with "API key appears to be invalid
\* (too short)."; a value of 10 or more characters is accepted.
C14_CredentialResolution ==
    (mode = "cli" /\ pc # "start") =>
        /\ apiKey = GivenKey
        /\ IF GivenKey \in {Undefined, ""}
           THEN Finished /\ exitCode = 1 /\ stderr = <<KeyRequiredMessage>>
                /\ requests = <<>>
           ELSE IF Len(GivenKey) < 10
           THEN Finished /\ exitCode = 1 /\ stderr = <<KeyTooShortMessage>>
                /\ requests = <<>>
           ELSE /\ \A k \in 1..Len(stderr) :
                      stderr[k] \notin {KeyRequiredMessage, KeyTooShortMessage}
                /\ \A k \in 1..Len(requests) :
                      requests[k].headers["x-goog-api-key"] = GivenKey

\* a key option of exactly ten characters was used although the variable was set
C14_Witness ==
    /\ mode = "cli" /\ Finished
    /\ argv.key = "1234567890"
    /\ argv.env = "short"
    /\ exitCode = 0
    /\ Len(requests) = 1
    /\ requests[1].headers["x-goog-api-key"] = "1234567890"

----------------------------------------------------------------------------
(* Properties of one MCP tool call (SpecMcp) *)

Responded == mode = "mcp" /\ pc = "responded"
KnownTool == argv.name \in {"generate_image", "modify_image"}
KeyMissing == argv.env \in {Undefined, ""}
InputImageUnreadable == inputFile # <<>> /\ inputFile[1].kind = "unreadable"
ApiFailure == result # <<>> /\ ~ result[1].success
NothingWritten == DOMAIN files = {}

\* the message of the failure a finished tool call ran into, Null if none
ToolFailure ==
    IF ~ KnownTool THEN "Unknown tool: " \o argv.name
    ELSE IF KeyMissing
    THEN "GEMINI_API_KEY environment variable is required. Get your API key from https://aistudio.google.com/apikey"
    ELSE IF InputImageMissing THEN "Input image not found: /w/in.JPG"
    ELSE IF InputImageUnreadable THEN inputFile[1].message
    ELSE IF ApiFailure THEN result[1].error
    ELSE IF NothingWritten THEN "EACCES: permission denied"
    ELSE Null

\* C15: every failure inside a tool call (missing GEMINI_API_KEY, input image
\* not found, Failure result, write failure, unknown tool name) ends in exactly
\* one response with isError set and the JSON text {success:false, error:
\* <message>}; a successful call returns the JSON text with success:true and
\* the absolute path of the file that was written.
C15_EveryFailureOneErrorResponse ==
    mode = "mcp" =>
        /\ Len(replies) = (IF pc = "responded" THEN 1 ELSE 0)
        /\ pc = "responded" =>
              LET reply == replies[1]
                  text == reply.content[1].text
              IN /\ Len(reply.content) = 1
                 /\ reply.content[1].type = "text"
                 /\ IF ToolFailure # Null
                    THEN /\ Has(reply, "isError") /\ reply.isError = TRUE
                         /\ text = [success |-> FALSE, error |-> ToolFailure]
                    ELSE /\ ~ Has(reply, "isError")
                         /\ text.success = TRUE
                         /\ isAbsolute(text.path)
                         /\ DOMAIN files = {text.path}
                         /\ files[text.path] = result[1].images[1].data

\* the vendor returned an image and the file could not be written
C15_Witness ==
    /\ Responded
    /\ argv.name = "modify_image"
    /\ result # <<>> /\ result[1].success
    /\ NothingWritten
    /\ replies[1].isError = TRUE
    /\ replies[1].content[1].text.error = "EACCES: permission denied"

\* the tool call carries a configuration or a credential error
ToolCallInvalid ==
    \/ trim(argv.arguments.prompt) = <<>>
    \/ ~ UnsetOrMember(AVAILABLE_MODELS, argv.arguments.model)
    \/ ~ UnsetOrMember(AVAILABLE_ASPECT_RATIOS, argv.arguments.aspectRatio)
    \/ ~ UnsetOrMember(AVAILABLE_IMAGE_SIZES, argv.arguments.size)
    \/ KeyMissing
    \/ Len(argv.env) < 10

\* C16: on the MCP tools too, a missing or blank prompt, an invalid enumerated
\* option and a missing or too-short credential are detected before any
\* network call: no HTTP request is issued for such a call.
C16_NoRequestOnInvalidToolCall ==
    (mode = "mcp" /\ ToolCallInvalid) => requests = <<>>

----------------------------------------------------------------------------
(* Properties of the decision order and of the scan (SpecInterpret) *)

NoCandidates(d) == ~ Has(d, "candidates") \/ Len(d.candidates) = 0

\* C17: the decision order is first-match-wins: a non-OK status yields the
\* HTTP/vendor error even with a block reason or candidates present; otherwise
\* a block reason yields "Content blocked: <reason>" even with candidates that
\* hold images; otherwise a missing or empty candidate list yields "No
\* candidates returned from API"; only otherwise are the candidates scanned.
C17_FirstMatchWins ==
    Parsed =>
        IF ~ Answer.ok
        THEN Res = [success |-> FALSE,
                    error |-> IF VendorMessage(Data) THEN Data.error.message
                              ELSE "HTTP " \o ToString(Answer.status) \o ": "
                                   \o Answer.statusText]
        ELSE IF Blocked(Data)
        THEN Res = [success |-> FALSE,
                    error |-> "Content blocked: " \o Data.promptFeedback.blockReason]
        ELSE IF NoCandidates(Data)
        THEN Res = [success |-> FALSE, error |-> "No candidates returned from API"]
        ELSE \/ Res.success
             \/ Res.error = "No images generated. The API returned only text."
             \/ Res.error \in {"Request failed: undefined is not iterable",
                               "Request failed: Cannot read properties of undefined (reading 'parts')"}

\* an OK answer with a block reason and a candidate that holds an image
C17_Witness ==
    /\ Parsed /\ Answer.ok /\ Blocked(Data)
    /\ Has(Data, "candidates")
    /\ Data.candidates = <<[content |-> [parts |-> <<ImagePng>>]]>>
    /\ Res = [success |-> FALSE, error |-> "Content blocked: SAFETY"]

IsInlineData(part) == Has(part, "inlineData")

\* the image an inline-data part declares: its MIME type and the bytes its
\* base64 data stand for
DeclaredImage(part) ==
    [data |-> IF part = ImagePng THEN PngBytes ELSE JpegBytes,
     mimeType |-> part.inlineData.mimeType]

\* C18: on Success the image list is exactly the sequence of the inline-data
\* parts of all candidates, in candidate order and then part order, each with
\* its declared MIME type: none dropped, duplicated or reordered.
C18_ImagesInEncounterOrder ==
    (Returned /\ Res.success) =>
        /\ Parsed /\ Has(Data, "candidates")
        /\ LET inline == SelectSeq(AllParts(Data.candidates), IsInlineData)
           IN /\ Len(Res.images) = Len(inline)
              /\ \A k \in 1..Len(inline) : Res.images[k] = DeclaredImage(inline[k])

\* a JPEG in the first candidate and a PNG in the second
C18_Witness ==
    /\ Returned /\ Res.success
    /\ Data.candidates = <<[content |-> [parts |-> <<ImageJpegWithText>>]],
                           [content |-> [parts |-> <<ImagePng>>]]>>
    /\ Res.images = <<[data |-> JpegBytes, mimeType |-> "image/jpeg"],
                      [data |-> PngBytes, mimeType |-> "image/png"]>>

\* the candidates were scanned to the end
ScannedThrough ==
    Scanned /\ \A k \in 1..Len(Data.candidates) : WellFormed(Data.candidates[k])

AnyTextIndices(ps) == {k \in 1..Len(ps) : Has(ps[k], "text")}

\* C19: the accompanying text is the text of the last text part met in the
\* scan, an empty string included; texts are never concatenated, and the text
\* is absent when no text part was met.
C19_LastTextPartWins ==
    ScannedThrough =>
        LET ps == AllParts(Data.candidates) IN
        IF AnyTextIndices(ps) = {} THEN ~ Has(Res, "text")
        ELSE Has(Res, "text") /\ Res.text = ps[LastOf(AnyTextIndices(ps))].text

\* C20: every result is exactly one of Success (success = true, a non-empty
\* image list, no error message) and Failure (success = false, a non-empty
\* error message, no image list).
C20_SuccessOrFailure ==
    Returned =>
        IF Res.success
        THEN Has(Res, "images") /\ Len(Res.images) >= 1 /\ ~ Has(Res, "error")
        ELSE Has(Res, "error") /\ Res.error # "" /\ ~ Has(Res, "images")

\* a scan that met only text: a Failure that carries the text and no image list
C20_Witness ==
    /\ ScannedThrough
    /\ NoInlineData(Data.candidates)
    /\ DOMAIN Res = {"success", "error", "text"}
    /\ Res.success = FALSE

----------------------------------------------------------------------------
(* Properties of the order of the checks of validateOptions (SpecValidate) *)

\* the five checks in the order prompt, model, aspect ratio, size, count: what
\* makes each one fail, and its message
Checks(o) ==
    <<[fails |-> ~ PromptGiven(o),
       message |-> "Prompt is required. Use -i or --input to specify a prompt."],
      [fails |-> Supplied(o.model) /\ ~ IsMember(AVAILABLE_MODELS, o.model),
       message |-> InvalidModelMessage],
      [fails |-> Supplied(o.aspectRatio)
                 /\ ~ IsMember(AVAILABLE_ASPECT_RATIOS, o.aspectRatio),
       message |-> "Invalid aspect ratio. Available ratios: 1:1, 2:3, 3:2, 3:4, 4:3, 4:5, 5:4, 9:16, 16:9, 21:9"],
      [fails |-> Supplied(o.size) /\ ~ IsMember(AVAILABLE_IMAGE_SIZES, o.size),
       message |-> "Invalid size. Available sizes: 1K, 2K, 4K"],
      [fails |-> o.count.kind # "undefined"
                 /\ ~ (o.count.kind = "num" /\ o.count.twice >= 2 /\ o.count.twice <= 8),
       message |-> "Count must be a number between 1 and 4."]>>

Failing(o) == {k \in 1..5 : Checks(o)[k].fails}
EarliestOf(S) == CHOOSE k \in S : \A j \in S : k <= j

\* C21: validateOptions checks prompt, model, aspect ratio, size, count in that
\* order and returns only the first failure: with several failing checks the
\* message is that of the earliest one, and it returns null iff none fails.
C21_FirstFailingCheckReported ==
    (mode = "validate" /\ pc = "validated") =>
        /\ optionsError = Null <=> Failing(options) = {}
        /\ Failing(options) # {} =>
              optionsError = Checks(options)[EarliestOf(Failing(options))].message

\* aspect ratio, size and count all fail: the aspect ratio is reported
C21_Witness ==
    /\ mode = "validate" /\ pc = "validated"
    /\ Failing(options) = {3, 4, 5}
    /\ optionsError = "Invalid aspect ratio. Available ratios: 1:1, 2:3, 3:2, 3:4, 4:3, 4:5, 5:4, 9:16, 16:9, 21:9"

----------------------------------------------------------------------------
(* Properties of the save loop of run (Spec) *)

Images == result[1].images
SaveFailedAt(i) ==
    stderr # <<>>
    /\ stderr[Len(stderr)] = "Error saving image " \o ToString(i) \o ": EACCES: permission denied"
SaveFailed == \E i \in 1..(MaxRunImages + 1) : SaveFailedAt(i)

\* the files written so far are the images 1 .. Len(savedPaths), each at its path
WrittenInOrder ==
    savedPaths # <<>> =>
        /\ result # <<>> /\ result[1].success
        /\ Len(savedPaths) <= Len(Images)
        /\ DOMAIN files = Range(savedPaths)
        /\ \A k \in 1..Len(savedPaths) : files[savedPaths[k]] = Images[k].data

SaveLoopState ==
    mode = "cli" =>
        /\ WrittenInOrder
        /\ savedPaths = <<>> => DOMAIN files = {}
        /\ \A i \in 1..(MaxRunImages + 1) :
              SaveFailedAt(i) =>
                  /\ Finished /\ exitCode = 1
                  /\ i <= Len(Images)
                  /\ Len(savedPaths) = i - 1
        /\ (Finished /\ exitCode = 0) =>
              /\ Len(savedPaths) = Len(Images)
              /\ stdout[Len(stdout)] = "Successfully generated "
                                       \o ToString(Len(Images)) \o " image(s)."

\* one write at a time, the next index each time, and none after a failure
SaveLoopStep ==
    mode = "cli" =>
        /\ ~ Finished
        /\ ~ SaveFailed
        /\ files' # files =>
              /\ Len(savedPaths') = Len(savedPaths) + 1
              /\ SubSeq(savedPaths', 1, Len(savedPaths)) = savedPaths
              /\ imgIndex = Len(savedPaths)
              /\ imgIndex' = imgIndex + 1

\* C22: run writes the returned images one after another in index order; when
\* writing image i fails no image after i is written or attempted, the images
\* before i remain written and the exit code is 1; on full success the reported
\* count is the number of images of the API result.
C22_SaveLoopInOrderStopsAtFailure == [] SaveLoopState /\ [][SaveLoopStep]_vars

\* the second of three images could not be written
C22_Witness ==
    /\ mode = "cli" /\ Finished
    /\ exitCode = 1
    /\ result # <<>> /\ result[1].success /\ Len(Images) = 3
    /\ SaveFailedAt(2)
    /\ Len(savedPaths) = 1
    /\ DOMAIN files = {savedPaths[1]}

----------------------------------------------------------------------------
(* Properties of the course of one CLI invocation (Spec) *)

\* the stages of run in their order
Stage(p) ==
    IF p = "start" THEN 0
    ELSE IF p = "load" THEN 1
    ELSE IF p = "generate" THEN 2
    ELSE IF p = "fetching" THEN 3
    ELSE IF p = "generated" THEN 4
    ELSE IF p = "save" THEN 5
    ELSE 6

FailureReported == stderr # <<>>

ForwardState ==
    mode = "cli" =>
        /\ Len(requests) <= 1
        /\ DOMAIN files # {} => (result # <<>> /\ result[1].success)
        /\ FailureReported => Finished /\ exitCode = 1

ForwardStep ==
    mode = "cli" =>
        /\ Stage(pc') >= Stage(pc)
        /\ Stage(pc') = Stage(pc) => (pc = "save" /\ imgIndex' = imgIndex + 1)
        /\ FailureReported => (requests' = requests /\ files' = files)
        /\ requests' # requests => (pc = "generate" /\ requests = <<>>)

\* C23: one invocation moves only forward through credential check, option
\* validation, input-image load, request, interpretation and file writes: at
\* most one request is ever issued, no file is written before the request has
\* returned a Success result, and after a reported failure there is no further
\* request and no further write.
C23_ForwardOnlyOneRequest == [] ForwardState /\ [][ForwardStep]_vars

\* the vendor refused the one request: the invocation is over, nothing written
C23_Witness ==
    /\ mode = "cli" /\ Finished
    /\ exitCode = 1
    /\ Len(requests) = 1
    /\ result # <<>> /\ ~ result[1].success
    /\ stderr = <<"Error: Invalid API key">>
    /\ DOMAIN files = {}

----------------------------------------------------------------------------
(* Properties of the credential in the request (SpecRequest) *)

OtherKeys == {"valid-api-key-12345", "k", "another-api-key-000"}

\* C24: in every request the credential appears only as the value of the
\* x-goog-api-key header: the URL and the JSON body are the same whatever the
\* credential is, for every combination of options.
C24_CredentialOnlyInHeader ==
    mode = "request" =>
        \A k \in 1..Len(requests) :
            LET o == genOptions[1]
                r == requests[k]
            IN /\ DOMAIN r.headers = {"Content-Type", "x-goog-api-key"}
               /\ r.headers["x-goog-api-key"] = o.apiKey
               /\ r.headers["Content-Type"] = "application/json"
               /\ r.url = API_BASE_URL \o "/"
                          \o (IF o.model = Undefined THEN "gemini-2.0-flash-exp" ELSE o.model)
                          \o ":generateContent"
               /\ \A key \in OtherKeys :
                     LET other == fetchRequest([o EXCEPT !.apiKey = key])
                     IN /\ other.url = r.url
                        /\ other.body = r.body
                        /\ other.method = r.method

\* a request with every option set and an input image
C24_Witness ==
    /\ mode = "request"
    /\ Len(requests) = 1
    /\ genOptions[1].apiKey = "k"
    /\ genOptions[1].model = "imagen-3.0-generate-002"
    /\ genOptions[1].aspectRatio = "21:9"
    /\ genOptions[1].imageSize = "4K"
    /\ genOptions[1].inputImage # <<>>
    /\ requests[1].headers["x-goog-api-key"] = "k"

----------------------------------------------------------------------------
(* Properties of repeated calls of the artifact namer (SpecNamer) *)

ReturnedTwice ==
    mode = "namer" /\ pc = "returned twice" /\ argv.fn = "generateOutputFilename"

\* C25: with a user path, two calls of generateOutputFilename with the same
\* path, index and MIME type, made at any two times, return the same path.
C25_IdempotentWithUserPath ==
    (ReturnedTwice /\ ~ NoUserPath) => replies[1] = replies[2]

\* two calls for the third image of logo, the clock having advanced
C25_Witness ==
    /\ ReturnedTwice
    /\ argv.outputPath = <<"o", "u", "t", "/", "p", "i", "c", ".", "p", "n", "g">>
    /\ argv.index = 2
    /\ now = MaxClock
    /\ replies = <<<<"/", "w", "/", "o", "u", "t", "/", "p", "i", "c", "_", "3", ".", "p", "n", "g">>, <<"/", "w", "/", "o", "u", "t", "/", "p", "i", "c", "_", "3", ".", "p", "n", "g">>>>

----------------------------------------------------------------------------
(* Properties of the endpoint of a CLI invocation (Spec) *)

ModelEndpoints ==
    {"https://generativelanguage.googleapis.com/v1beta/models/gemini-2.0-flash-exp:generateContent",
     "https://generativelanguage.googleapis.com/v1beta/models/imagen-3.0-generate-002:generateContent"}

\* C26: whenever a CLI invocation issues a request, the model segment of its
\* URL is one of the two fixed model identifiers; in particular an empty-string
\* model never reaches the URL.
C26_UrlModelInFixedSet ==
    mode = "cli" => \A k \in 1..Len(requests) : requests[k].url \in ModelEndpoints

----------------------------------------------------------------------------
(* Properties of the paths of one batch (Spec) *)

\* C27: within one invocation the output paths of distinct image indices are
\* pairwise distinct, with or without a user output path, whatever the MIME
\* types and the clock: no image of a batch overwrites another.
C27_DistinctPathsPerIndex ==
    mode = "cli" =>
        /\ \A i, j \in 1..Len(savedPaths) : i # j => savedPaths[i] # savedPaths[j]
        /\ Cardinality(DOMAIN files) = Len(savedPaths)

\* four images of alternating MIME types under a user path without extension
C27_Witness ==
    /\ mode = "cli" /\ Finished /\ exitCode = 0
    /\ argv.output = <<"o", "u", "t", "/", "p", "i", "c">>
    /\ savedPaths = <<<<"/", "w", "/", "o", "u", "t", "/", "p", "i", "c", ".", "p", "n", "g">>, <<"/", "w", "/", "o", "u", "t", "/", "p", "i", "c", "_", "2", ".", "j", "p", "g">>, <<"/", "w", "/", "o", "u", "t", "/", "p", "i", "c", "_", "3", ".", "p", "n", "g">>,
                      <<"/", "w", "/", "o", "u", "t", "/", "p", "i", "c", "_", "4", ".", "j", "p", "g">>>>
    /\ Cardinality(DOMAIN files) = 4

----------------------------------------------------------------------------
(* Properties of two concurrent MCP tool calls (SpecMcpPair) *)

Succeeded(c) ==
    c \in DOMAIN replies /\ ~ Has(replies[c], "isError")

\* C28: two tool calls handled concurrently, both without an output argument,
\* never write their images to the same file path, under every interleaving
\* of their awaited API calls and file writes and every clock reading.
C28_ConcurrentCallsWriteApart ==
    (mode = "mcp pair" /\ Succeeded(1) /\ Succeeded(2)) =>
        /\ replies[1].content[1].text.path # replies[2].content[1].text.path
        /\ Cardinality(DOMAIN files) = 2

----------------------------------------------------------------------------
(* The MCP path builder against the CLI Artifact Namer (SpecNamer) *)

\* C29: for index 0, generateOutputPath and generateOutputFilename resolve
\* the same file path for every user-supplied output path and MIME type,
\* a user path without extension getting the MIME-implied extension.
C29_McpPathEqualsCliPath ==
    (NamerReturned("generateOutputPath") /\ TruthyS(argv.outputPath)) =>
        replies[1] = generateOutputFilename(argv.outputPath, 0, argv.mimeType, now)

----------------------------------------------------------------------------
(* The files one MCP tool call writes (SpecMcp) *)

\* the call got as far as saveImage: the API result carries an image
ReachedWrite ==
    result # <<>> /\ result[1].success /\ Has(result[1], "images")
        /\ Len(result[1].images) > 0

\* C30: a successful tool call (generate_image or modify_image) writes
\* exactly one file, holding the first image of the API result, at the path
\* it reports, however many images the vendor returned; a call that fails
\* before the write leaves no file written. No file exists before the
\* response either.
C30_OneFileFirstImageAtReportedPath ==
    mode = "mcp" =>
        /\ pc # "responded" => NothingWritten
        /\ (pc = "responded" /\ Has(replies[1], "isError") /\ ~ ReachedWrite) =>
              NothingWritten
        /\ (pc = "responded" /\ ~ Has(replies[1], "isError")) =>
              LET text == replies[1].content[1].text IN
              /\ KnownTool /\ ReachedWrite
              /\ DOMAIN files = {text.path}
              /\ files[text.path] = result[1].images[1].data

C30_Witness ==
    /\ Responded
    /\ argv.name = "modify_image"
    /\ argv.arguments.output = <<"o", "u", "t", "/", "p", "i", "c">>
    /\ ~ Has(replies[1], "isError")
    /\ ReachedWrite
    /\ Len(result[1].images) = 3
    /\ result[1].images[1].data # result[1].images[2].data
    /\ replies[1].content[1].text.path = <<"/", "w", "/", "o", "u", "t", "/", "p", "i", "c">>
    /\ DOMAIN files = {<<"/", "w", "/", "o", "u", "t", "/", "p", "i", "c">>}
    /\ files[<<"/", "w", "/", "o", "u", "t", "/", "p", "i", "c">>] = result[1].images[1].data

====
